---- MODULE Spec2Model ----
(***************************************************************************)
(* MK11 UE3 asset manager: the raw archive parser (MK11UE3Asset), the      *)
(* midway image builder (_MidwayBuilder) and the midway image parser        *)
(* (MidwayAsset).                                                           *)
(*                                                                          *)
(* Bytes are naturals 0..255 and byte strings are sequences of bytes.       *)
(* ctypes records that are copied out of a buffer and written back          *)
(* (the file summary, the external table rows) stay byte strings, with      *)
(* their fields read at the packed offsets; 64-bit fields that the code     *)
(* only compares (reference keys, the four fields of an external entry)     *)
(* stay 8-byte strings, so that 0xFFFFFFFFFFFFFFFF is exact.                *)
(*                                                                          *)
(* A function of the code that runs in steps is a chain of operators, one   *)
(* per step: each step hands what it computed to the next as a parameter,   *)
(* and a step that raises ends the chain with the exception in `err`.       *)
(***************************************************************************)
EXTENDS Integers, Sequences, FiniteSets, TLC

VARIABLES
    raw,          \* the raw archive as it lies on disk (never written)
    extra_source, \* the companion PSF source handed to the constructor ("" = none)
    mk11,         \* the MK11UE3Asset object: its attributes and its cursor
    image,        \* the bytearray built by _MidwayBuilder.from_mk11
    blocks_log,   \* one record per deserialize_block call of the last build
    midway,       \* the MidwayAsset object wrapping an image
    outcome,      \* the call that ran last and the exception it raised, if any
    splice,       \* a bytearray and the last _build_midway_block call on it
    asset,        \* the import and export tables of a parsed image and its extent
    walk,         \* the path computation in progress on an entry of the tables
    errors,       \* what the export coverage validator returned last
    warned_classes, \* the module-level set of ue3_properties
    handler       \* the DatabaseHandler made last and how many were made

\* the state of the archive pipeline, of the resolved tables and of the
\* property decoder
archive_vars == <<raw, extra_source, mk11, image, blocks_log, midway, splice>>
table_vars == <<asset, walk, errors>>
decoder_vars == <<warned_classes, handler>>

vars == <<raw, extra_source, mk11, image, blocks_log, midway, outcome, splice,
          asset, walk, errors, warned_classes, handler>>

----------------------------------------------------------------------------
(* Bounds of the model *)

MaxData == 2      \* longest decompressed chunk output
MaxByte == 1      \* payload bytes are drawn from 0..MaxByte
MaxKey == 2       \* reference keys are drawn from 1..MaxKey
MaxTables == 2    \* tables per external table group
MaxRows == 2      \* entries on either side of the PSF / extra-package pairing
MaxWord == 2      \* a 64-bit field of an external entry is 1..MaxWord or -1
MaxImports == 1   \* entries of the import table
MaxExports == 2   \* entries of the export table
MaxRef == 2       \* a signed table index is drawn from -MaxRef..MaxRef
MaxRuns == 2      \* handler runs in one process
MaxTags == 1      \* property tags of an export body ahead of its ending
MaxBuffer == 4    \* longest bytearray blocks are spliced into one by one
MaxExtent == 4    \* size of the image whose exports are validated
MaxChunks == 3    \* most chunks of one block
MaxElements == 2  \* most elements of a map

----------------------------------------------------------------------------
(* Byte strings *)

Zeros(n) == [i \in 1..n |-> 0]

\* bytes [from, from+n) of b, offsets counted from 0 as the code counts them
Slice(b, from, n) == SubSeq(b, from + 1, from + n)

RECURSIVE ToLittle(_, _)
\* int.to_bytes(size, "little")
ToLittle(val, size) ==
    IF size = 0 THEN <<>> ELSE <<val % 256>> \o ToLittle(val \div 256, size - 1)

\* Every count, length and offset the model can hold is below TooBig; a field
\* whose value is at least 2^24 reads as TooBig, which lies beyond every buffer.
TooBig == 256 * 256 * 256

RECURSIVE FromLittleSmall(_)
FromLittleSmall(b) ==
    IF b = <<>> THEN 0 ELSE Head(b) + 256 * FromLittleSmall(Tail(b))

\* int.from_bytes(b, "little") / the .value of a c_uint32, c_uint64
FromLittle(b) ==
    IF \E i \in 4..Len(b) : b[i] # 0 THEN TooBig
    ELSE FromLittleSmall(SubSeq(b, 1, IF Len(b) < 3 THEN Len(b) ELSE 3))

RECURSIVE CStr(_)
\* the .value of a c_char array: the bytes before the first NUL
CStr(b) ==
    IF b = <<>> \/ Head(b) = 0 THEN <<>> ELSE <<Head(b)>> \o CStr(Tail(b))

\* any(bytes): some byte is nonzero
AnyByte(b) == \E i \in 1..Len(b) : b[i] # 0

RECURSIVE Flatten(_)
Flatten(ss) == IF ss = <<>> THEN <<>> ELSE Head(ss) \o Flatten(Tail(ss))

\* the sequences over S of up to n elements
SeqsUpTo(S, n) == UNION {[1..k -> S] : k \in 0..n}

RECURSIVE SumSeq(_)
SumSeq(s) == IF s = <<>> THEN 0 ELSE Head(s) + SumSeq(Tail(s))

----------------------------------------------------------------------------
(* The file summary, MK11AssetHeader: 104 packed bytes *)

HeaderSize == 104

FILE_MAGIC == <<193, 131, 42, 158>>   \* 0x9E2A83C1, little-endian
FOUR_CC_MK11 == <<77, 75, 49, 49>>    \* b"MK11"
MAIN_PACKAGE == <<77, 65, 73, 78>>    \* b"MAIN"

header_magic(h) == Slice(h, 0, 4)
header_exports_location(h) == FromLittle(Slice(h, 8, 4))
header_midway_team_four_cc(h) == CStr(Slice(h, 20, 4))
header_main_package(h) == CStr(Slice(h, 32, 4))
header_name_table_entries(h) == FromLittle(Slice(h, 40, 4))
header_name_table_offset(h) == FromLittle(Slice(h, 44, 8))
header_export_table_entries(h) == FromLittle(Slice(h, 52, 4))
header_export_table_offset(h) == FromLittle(Slice(h, 56, 8))
header_import_table_entries(h) == FromLittle(Slice(h, 64, 4))
header_import_table_offset(h) == FromLittle(Slice(h, 68, 8))
header_bulk_data_offset(h) == FromLittle(Slice(h, 76, 8))
header_compression_flag(h) == FromLittle(Slice(h, 100, 4))

\* A summary on disk with the given magic, four-cc, main package, name table
\* offset and compression flag; the other fields are zero.
MakeHeader(magic, four_cc, main_package, name_offset, flag) ==
    magic \o Zeros(16) \o four_cc \o Zeros(8) \o main_package \o Zeros(4)
    \o Zeros(4) \o ToLittle(name_offset, 8)
    \o Zeros(12) \o Zeros(12) \o Zeros(8) \o Zeros(16) \o ToLittle(flag, 4)

----------------------------------------------------------------------------
(* CompressionType and the compressor selection *)

CompressionType_NONE == 0
CompressionType_PS4 == 16

\* the members of the IntEnum
CompressionTypeMembers == {0, 1, 2, 4, 8, 16, 64, 256}

\* CompressionType(value): an IntEnum lookup, ValueError for a non-member
IsCompressionType(value) == value \in CompressionTypeMembers

\* get_compressor on a CompressionType member: "" when OodleV5 is returned,
\* else the exception
get_compressor(compression) ==
    IF compression >= CompressionType_PS4 THEN "" ELSE "NotImplementedError"

----------------------------------------------------------------------------
(* External tables: MK11AssetExternalTable and MK11ExternalTableEntry *)

EntrySize == 32

\* neg = -1 & 0xFFFFFFFFFFFFFFFF as the eight bytes of a c_uint64
neg == [i \in 1..8 |-> 255]

\* MK11ExternalTableEntry read at pos: four c_uint64 fields in declaration order
read_entry(mm, pos) ==
    [decompressed_size |-> Slice(mm, pos, 8),
     compressed_size |-> Slice(mm, pos + 8, 8),
     decompressed_offset |-> Slice(mm, pos + 16, 8),
     compressed_offset |-> Slice(mm, pos + 24, 8),
     location |-> ""]

\* Struct.serialize of an entry: the 32 bytes of the record
serialize_entry(e) ==
    e.decompressed_size \o e.compressed_size \o e.decompressed_offset
    \o e.compressed_offset

\* a classification that tests the -1 pair before the equal offsets
entry_location_pair_first(e) ==
    IF e.compressed_offset = neg \/ e.compressed_size = neg
    THEN IF e.compressed_offset # e.compressed_size
         THEN "NotImplementedError" ELSE "bulk"
    ELSE IF e.compressed_offset = e.decompressed_offset THEN "psf"
    ELSE "NotImplementedError"

\* The location tag validate_filetable_table_entries gives one entry, or the
\* exception its classification raises
entry_location(e) ==
    IF e.compressed_offset = e.decompressed_offset THEN "psf"
    ELSE IF e.compressed_offset = neg \/ e.compressed_size = neg
         THEN IF e.compressed_offset # e.compressed_size
              THEN "NotImplementedError" ELSE "bulk"
         ELSE "NotImplementedError"

IsLocation(l) == l \in {"psf", "bulk"}

\* validate_filetable_table_entries: the table with every entry tagged, or
\* the first exception (the flag lookup comes before the entries)
validate_filetable_table_entries(table, table_type) ==
    IF ~IsCompressionType(table.compression_flag)
    THEN [err |-> "ValueError", table |-> table]
    ELSE IF \E i \in 1..Len(table.entries) : ~IsLocation(entry_location(table.entries[i]))
         THEN [err |-> "NotImplementedError", table |-> table]
         ELSE [err |-> "",
               table |-> [table EXCEPT !.entries =
                    [i \in 1..Len(table.entries) |->
                        [table.entries[i] EXCEPT !.location = entry_location(table.entries[i])]]]]

NoTable ==
    [reference_key |-> <<>>, package_name_length |-> 0, package_name |-> <<>>,
     entries_count |-> 0, entries |-> <<>>, compression_flag |-> 0]

\* a read past the end of the buffer: the ValueError of from_buffer_copy
ReadError(pos) == [err |-> "ValueError", pos |-> pos, table |-> NoTable]

\* the entries and the trailing compression_flag of the table at pos, whose
\* name of name_length bytes and entries_count have been read
read_table_entries(mm, pos, name_length, count) ==
    IF pos + 16 + name_length + EntrySize * count + 4 > Len(mm) THEN ReadError(pos)
    ELSE [err |-> "", pos |-> pos + 16 + name_length + EntrySize * count + 4,
          table |-> [reference_key |-> Slice(mm, pos, 8),
                     package_name_length |-> name_length,
                     package_name |-> CStr(Slice(mm, pos + 12, name_length)),
                     entries_count |-> count,
                     entries |-> [i \in 1..count |->
                                    read_entry(mm, pos + 16 + name_length + EntrySize * (i - 1))],
                     compression_flag |->
                         FromLittle(Slice(mm, pos + 16 + name_length + EntrySize * count, 4))]]

\* MK11AssetExternalTable.read once package_name_length has been read
read_table_name(mm, pos, name_length) ==
    IF pos + 16 + name_length > Len(mm) THEN ReadError(pos)
    ELSE read_table_entries(mm, pos, name_length,
                            FromLittle(Slice(mm, pos + 12 + name_length, 4)))

\* MK11AssetExternalTable.read, the entries and the flag of the table at pos
read_table(mm, pos) ==
    IF pos + 12 > Len(mm) THEN ReadError(pos)
    ELSE read_table_name(mm, pos, FromLittle(Slice(mm, pos + 8, 4)))

RECURSIVE parse_filetable_tables(_, _, _, _)

\* list(): the table just yielded before the ones that follow it
tables_yield(table, rest) ==
    IF rest.err # "" THEN rest
    ELSE [err |-> "", tables |-> <<table>> \o rest.tables, pos |-> rest.pos]

\* the table read at the head of the loop has been validated
tables_validated(mm, pos, count, table_type, v) ==
    IF v.err # "" THEN [err |-> v.err, tables |-> <<>>, pos |-> pos]
    ELSE tables_yield(v.table, parse_filetable_tables(mm, pos, count - 1, table_type))

\* the table at the head of the loop has been read
tables_read(mm, count, table_type, t) ==
    IF t.err # "" THEN [err |-> t.err, tables |-> <<>>, pos |-> t.pos]
    ELSE tables_validated(mm, t.pos, count, table_type,
                          validate_filetable_table_entries(t.table, table_type))

\* parse_filetable_tables: count tables from pos on, each validated as it is read
parse_filetable_tables(mm, pos, count, table_type) ==
    IF count = 0 THEN [err |-> "", tables |-> <<>>, pos |-> pos]
    ELSE tables_read(mm, count, table_type, read_table(mm, pos))

\* parse_file_table: a u32 count, then the tables
parse_file_table(mm, pos, table_type) ==
    IF pos + 4 > Len(mm) THEN [err |-> "ValueError", tables |-> <<>>, pos |-> pos]
    ELSE parse_filetable_tables(mm, pos + 4, FromLittle(Slice(mm, pos, 4)), table_type)

\* parse_file_name once the u32 length has been read
file_name_chars(mm, pos, length) ==
    IF pos + 4 + length > Len(mm)
    THEN [err |-> "ValueError", file_name |-> <<>>, pos |-> pos]
    ELSE [err |-> "", file_name |-> CStr(Slice(mm, pos + 4, length)),
          pos |-> pos + 4 + length]

\* parse_file_name: a u32 length, then that many chars read as a C string
parse_file_name(mm, pos) ==
    IF pos + 4 > Len(mm) THEN [err |-> "ValueError", file_name |-> <<>>, pos |-> pos]
    ELSE file_name_chars(mm, pos, FromLittle(Slice(mm, pos, 4)))

\* MK11AssetExternalTable.serialize
serialize_table(t) ==
    t.reference_key \o ToLittle(t.package_name_length, 4) \o t.package_name
    \o <<0>> \o ToLittle(t.entries_count, 4)

\* A dict is the sequence of its items in insertion order.
DictHas(d, key) == \E i \in 1..Len(d) : d[i].key = key

DictGet(d, key) == d[CHOOSE i \in 1..Len(d) : d[i].key = key].value

\* d[key] = value
DictSet(d, key, value) ==
    IF DictHas(d, key)
    THEN [i \in 1..Len(d) |-> IF d[i].key = key THEN [key |-> key, value |-> value] ELSE d[i]]
    ELSE Append(d, [key |-> key, value |-> value])

\* a membership test that never finds the key
key_never_in_result(result, key) == FALSE

\* `if key in result` of generate_map_from_table
key_in_result(result, key) == DictHas(result, key)

RECURSIVE map_from_tables(_, _)
\* the loop of generate_map_from_table, starting with the dict `result`
map_from_tables(result, tables) ==
    IF tables = <<>> THEN [err |-> "", map |-> result]
    ELSE IF key_in_result(result, Head(tables).reference_key)
         THEN [err |-> "ValueError", map |-> <<>>]
         ELSE map_from_tables(DictSet(result, Head(tables).reference_key, Head(tables)),
                              Tail(tables))

\* generate_map_from_table: the key -> table dict, or ValueError on a key seen twice
generate_map_from_table(tables) == map_from_tables(<<>>, tables)

----------------------------------------------------------------------------
(* Blocks: deserialize_block, parse_blocks_chunk, decompress_block.        *)
(* A block on disk is its header fields and `stream`, the 16-byte records  *)
(* that follow the header, read as chunk headers. Each record carries what *)
(* OodleLZ_Decompress does when it is called for that chunk: `result`, its *)
(* return value, and `dst`, the output buffer of decompressed_size bytes.  *)

BlockHeaderSize == 32   \* sizeof(MK11BlockHeader)
ChunkHeaderSize == 16   \* sizeof(MK11BlockChunkHeader)

Min(a, b) == IF a < b THEN a ELSE b

\* one more header than the `more` the rest of the loop reads
one_more(more) == IF more = -1 THEN -1 ELSE 1 + more

RECURSIVE headers_read(_, _, _)
\* the while loop of parse_blocks_chunk: how many 16-byte records it reads
\* starting with total_read, or -1 when the records run out first
headers_read(stream, total_read, compressed_size) ==
    IF ~(total_read < compressed_size) THEN 0
    ELSE IF stream = <<>> THEN -1
    ELSE one_more(headers_read(Tail(stream), total_read + Head(stream).compressed_size,
                               compressed_size))

\* the first n records of the stream
headers_taken(block, n) ==
    IF n = -1 THEN [err |-> "ValueError", chunk_headers |-> <<>>]
    ELSE [err |-> "", chunk_headers |-> SubSeq(block.stream, 1, n)]

\* parse_blocks_chunk: the chunk headers enumerated for a block
parse_blocks_chunk(block) ==
    headers_taken(block, headers_read(block.stream, 0, block.compressed_size))

\* OodleV5.decompress(chunk, output_size): dst.raw[:result], RuntimeError
\* when the library returns no positive length
decompress(chunk) ==
    IF chunk.result <= 0 THEN [err |-> "RuntimeError", data |-> <<>>]
    ELSE [err |-> "", data |-> SubSeq(chunk.dst, 1, Min(chunk.result, Len(chunk.dst)))]

\* the compressor call made for a chunk and the length it returned (-1: it raised)
CallOf(chunk, d) ==
    [src_len |-> chunk.compressed_size, output_size |-> chunk.decompressed_size,
     returned |-> IF d.err # "" THEN -1 ELSE Len(d.data)]

\* data += decompressed_chunk, before the chunks that follow
chunks_append(call, d, rest) ==
    [err |-> rest.err, data |-> d.data \o rest.data, calls |-> <<call>> \o rest.calls]

RECURSIVE decompress_chunks(_)

\* the head chunk has been handed to the compressor
chunk_decompressed(chunks, d) ==
    IF d.err # "" THEN [err |-> d.err, data |-> <<>>, calls |-> <<CallOf(Head(chunks), d)>>]
    ELSE chunks_append(CallOf(Head(chunks), d), d, decompress_chunks(Tail(chunks)))

\* the for loop of decompress_block over the enumerated chunks
decompress_chunks(chunks) ==
    IF chunks = <<>> THEN [err |-> "", data |-> <<>>, calls |-> <<>>]
    ELSE chunk_decompressed(chunks, decompress(Head(chunks)))

\* Struct.read_buffer of the payload of chunk i, then compressor.decompress
chunk_reads(i) == <<[op |-> "chunk_data", chunk |-> i], [op |-> "decompress", chunk |-> i]>>

\* a reader that takes each payload right behind its chunk header
block_reads_interleaved(hs, out) ==
    Flatten([i \in 1..Len(out.calls) |->
               <<[op |-> "chunk_header", chunk |-> i]>> \o chunk_reads(i)])

\* what parse_blocks_chunk and decompress_block do in the order they do it:
\* the while loop reads the chunk headers, then every step of the generator
\* reads one payload and hands it to the compressor
block_reads(hs, out) ==
    [i \in 1..Len(hs.chunk_headers) |-> [op |-> "chunk_header", chunk |-> i]]
    \o Flatten([i \in 1..Len(out.calls) |-> chunk_reads(i)])

\* what deserialize_block returns or raises, with the record of the headers
\* it enumerated, the compressor calls it made and the bytes it read
block_result(block, hs, out) ==
    [err |-> IF hs.err # "" THEN hs.err ELSE out.err,
     data |-> IF hs.err # "" \/ out.err # "" THEN <<>> ELSE out.data,
     block_compressed_size |-> block.compressed_size,
     block_decompressed_size |-> block.decompressed_size,
     chunk_headers |-> [i \in 1..Len(hs.chunk_headers) |->
                          [compressed_size |-> hs.chunk_headers[i].compressed_size,
                           decompressed_size |-> hs.chunk_headers[i].decompressed_size]],
     calls |-> out.calls,
     reads |-> block_reads(hs, out),
     read |-> BlockHeaderSize
              + ChunkHeaderSize * (IF hs.err # "" THEN Len(block.stream)
                                   ELSE Len(hs.chunk_headers))
              + SumSeq([i \in 1..Len(out.calls) |-> out.calls[i].src_len])]

\* decompress_block over the headers parse_blocks_chunk enumerated
block_chunks(block, hs) == block_result(block, hs, decompress_chunks(hs.chunk_headers))

\* deserialize_block
deserialize_block(block) == block_chunks(block, parse_blocks_chunk(block))

----------------------------------------------------------------------------
(* Packages: MK11AssetPackage and MK11AssetSubPackage, as ctypes decodes   *)
(* them (four u64 fields per sub-package).                                  *)

PackageFixedSize == 36   \* sizeof(_MK11AssetPackage): four u64 and one u32
SubPackageSize == 32     \* sizeof(MK11AssetSubPackage): four u64
ReservedSize == 24       \* the 0x18 bytes skipped after the package lists

\* bytes parse_packages consumes for one package list
PackagesSize(packages) ==
    4 + SumSeq([i \in 1..Len(packages) |->
                  4 + Len(packages[i].package_name) + PackageFixedSize
                  + SubPackageSize * Len(packages[i].entries)])

\* the entries of a list of packages or tables, in list-then-row order
AllEntries(groups) == Flatten([i \in 1..Len(groups) |-> groups[i].entries])

\* how many PSF entries zip() has drawn when it stops: it draws from the PSF
\* iterator first, so one more than it paired when the package side ends first
psf_drawn(psf, pkg) ==
    IF Len(psf) > Len(pkg) THEN Len(pkg) + 1 ELSE Len(psf)

\* validate_psf_with_extra over the two flattened sequences
paired_entries(psf, pkg) ==
    IF \E idx \in 1..Min(Len(psf), Len(pkg)) :
          psf[idx].compressed_offset # ToLittle(pkg[idx].compressed_offset, 8)
    THEN "ValueError"
    ELSE IF psf_drawn(psf, pkg) < Len(psf) THEN "ValueError"
    ELSE IF Min(Len(psf), Len(pkg)) < Len(pkg) THEN "ValueError"
    ELSE ""

\* validate_psf_with_extra: "" or the exception
validate_psf_with_extra(psf_tables, packages_extra) ==
    paired_entries(AllEntries(psf_tables), AllEntries(packages_extra))

----------------------------------------------------------------------------
(* MK11UE3Asset.parse.  An object is a record of its attributes; `has` is  *)
(* the set of attributes assigned so far (reading another one is an        *)
(* AttributeError) and `pos` is the cursor of its memory map.              *)

\* MK11Archive.__init__: psf_source is assigned only for a truthy extra_source
NewArchive(extra) ==
    [has |-> IF extra # "" THEN {"psf_source"} ELSE {},
     header |-> <<>>, compression_mode |-> 0,
     packages |-> <<>>, packages_extra |-> <<>>, file_name |-> <<>>,
     psf_tables |-> <<>>, bulk_tables |-> <<>>, meta_size |-> 0,
     parsed |-> FALSE, pos |-> 0]

Raised(err, o) == [err |-> err, obj |-> o]
Returned(o) == [err |-> "", obj |-> o]

\* where the file name section starts in the raw archive
TailAt(r) ==
    HeaderSize + PackagesSize(r.packages) + PackagesSize(r.packages_extra) + ReservedSize

\* self.header = self.parse_header()
with_header(o, r) ==
    [o EXCEPT !.header = r.header, !.pos = HeaderSize, !.has = @ \cup {"header"}]

\* self.compression_mode = CompressionType(flag)
with_mode(o, flag) ==
    [o EXCEPT !.compression_mode = flag, !.has = @ \cup {"compression_mode"}]

\* self.compressor, self.packages, self.packages_extra; skip(0x18)
with_packages(o, r) ==
    [o EXCEPT !.packages = r.packages, !.packages_extra = r.packages_extra,
              !.pos = TailAt(r),
              !.has = @ \cup {"compressor", "packages", "packages_extra"}]

\* self.file_name = self.parse_file_name()
with_file_name(o, r, name) ==
    [o EXCEPT !.file_name = name.file_name, !.pos = TailAt(r) + name.pos,
              !.has = @ \cup {"file_name"}]

\* self.psf_tables = self.parse_file_table("psf")
with_psf_tables(o, r, psf) ==
    [o EXCEPT !.psf_tables = psf.tables, !.pos = TailAt(r) + psf.pos,
              !.has = @ \cup {"psf_tables"}]

\* self.bulk_tables = self.parse_file_table("bulk"); self.meta_size = self.mm.tell()
with_bulk_tables(o, r, bulk) ==
    [o EXCEPT !.bulk_tables = bulk.tables, !.pos = TailAt(r) + bulk.pos,
              !.meta_size = TailAt(r) + bulk.pos,
              !.has = @ \cup {"bulk_tables", "meta_size"}]

\* self.parsed = True
with_parsed(o) == [o EXCEPT !.parsed = TRUE]

\* self.validate_psf_with_extra() has run
mk11_parse_paired(o, paired) ==
    IF paired # "" THEN Raised(paired, o) ELSE Returned(with_parsed(o))

\* the bulk table group has been read
mk11_parse_bulk(o, r, bulk) ==
    IF bulk.err # "" THEN Raised(bulk.err, o)
    ELSE mk11_parse_paired(with_bulk_tables(o, r, bulk),
                           validate_psf_with_extra(o.psf_tables, r.packages_extra))

\* the PSF table group has been read
mk11_parse_psf(o, r, psf) ==
    IF psf.err # "" THEN Raised(psf.err, o)
    ELSE mk11_parse_bulk(with_psf_tables(o, r, psf), r,
                         parse_file_table(r.tail, psf.pos, "bulk"))

\* the file name has been read
mk11_parse_name(o, r, skip_bulk, name) ==
    IF name.err # "" THEN Raised(name.err, o)
    ELSE IF skip_bulk THEN Returned(with_parsed(with_file_name(o, r, name)))
    ELSE mk11_parse_psf(with_file_name(o, r, name), r,
                        parse_file_table(r.tail, name.pos, "psf"))

\* the summary has been read and its compression flag is flag
mk11_parse_flag(o, r, skip_bulk, flag) ==
    IF ~IsCompressionType(flag) THEN Raised("ValueError", o)
    ELSE IF get_compressor(flag) # "" THEN Raised(get_compressor(flag), with_mode(o, flag))
    ELSE mk11_parse_name(with_packages(with_mode(o, flag), r), r, skip_bulk,
                         parse_file_name(r.tail, 0))

\* MK11UE3Asset.parse on an object whose cursor is at 0: the object as the
\* call leaves it and the exception it raised ("" = none)
mk11_parse(o, r, skip_bulk) ==
    mk11_parse_flag(with_header(o, r), r, skip_bulk, header_compression_flag(r.header))

----------------------------------------------------------------------------
(* _MidwayBuilder *)

\* _build_header: the summary without its last 4 bytes, the compression mode
\* as 4 bytes, 8 zero bytes
build_header(header, compression_mode) ==
    SubSeq(header, 1, Len(header) - 4) \o ToLittle(compression_mode, 4) \o Zeros(8)

\* _build_padding
build_padding == Zeros(ReservedSize)

\* _build_filename_section
build_filename_section(file_name) ==
    ToLittle(Len(file_name) + 1, 4) \o file_name \o <<0>>

\* _build_file_tables
build_file_tables(tables) ==
    ToLittle(Len(tables), 4)
    \o Flatten([i \in 1..Len(tables) |->
                  serialize_table(tables[i])
                  \o Flatten([j \in 1..Len(tables[i].entries) |->
                                serialize_entry(tables[i].entries[j])])
                  \o ToLittle(tables[i].compression_flag, 4)])

\* an assignment that drops what the buffer holds behind the data
slice_assign_truncating(buffer, offset, data) == SubSeq(buffer, 1, offset) \o data

\* buffer[offset:end] = data, for offset <= len(buffer)
slice_assign(buffer, offset, data) ==
    SubSeq(buffer, 1, offset) \o data \o SubSeq(buffer, offset + Len(data) + 1, Len(buffer))

\* the bytes the splice finds in buffer[offset:end]
existing(buffer, offset, data) ==
    SubSeq(buffer, offset + 1, Min(offset + Len(data), Len(buffer)))

\* a splice that writes over whatever the buffer holds
build_midway_block_over(buffer, offset, data) ==
    [err |-> "",
     buffer |-> slice_assign(buffer \o Zeros(IF offset > Len(buffer)
                                              THEN offset - Len(buffer) ELSE 0),
                             offset, data)]

\* _build_midway_block: splice data into buffer at offset
build_midway_block(buffer, offset, data) ==
    IF offset > Len(buffer)
    THEN [err |-> "",
          buffer |-> slice_assign(buffer \o Zeros(offset - Len(buffer)), offset, data)]
    ELSE IF offset < Len(buffer) /\ AnyByte(existing(buffer, offset, data))
         THEN [err |-> "ValueError", buffer |-> buffer]
         ELSE [err |-> "", buffer |-> slice_assign(buffer, offset, data)]

\* what the build loop did for one sub-package entry
BuildRecord(e, d) ==
    [offset |-> e.decompressed_offset, block |-> d,
     end_pos |-> e.compressed_offset + d.read]

\* the entry just spliced, before the entries that follow it
blocks_follow(rec, rest) ==
    [err |-> rest.err, buffer |-> rest.buffer, log |-> <<rec>> \o rest.log]

RECURSIVE build_blocks(_, _, _)

\* the head entry's data has been spliced
block_spliced(entries, blocks, d, spliced) ==
    IF spliced.err # ""
    THEN [err |-> spliced.err, buffer |-> <<>>, log |-> <<BuildRecord(Head(entries), d)>>]
    ELSE blocks_follow(BuildRecord(Head(entries), d),
                       build_blocks(spliced.buffer, Tail(entries), blocks))

\* the head entry's block has been deserialized
block_read(buffer, entries, blocks, d) ==
    IF d.err # ""
    THEN [err |-> d.err, buffer |-> <<>>, log |-> <<BuildRecord(Head(entries), d)>>]
    ELSE block_spliced(entries, blocks, d,
                       build_midway_block(buffer, Head(entries).decompressed_offset, d.data))

\* the loop of from_mk11 over deserialize_packages(): each sub-package entry
\* of the primary list is decompressed and spliced before the next is read
build_blocks(buffer, entries, blocks) ==
    IF entries = <<>> THEN [err |-> "", buffer |-> buffer, log |-> <<>>]
    ELSE block_read(buffer, entries, blocks,
                    deserialize_block(blocks[Head(entries).compressed_offset]))

\* the summary, the padding and the file name section of the image
build_meta(m) ==
    build_header(m.header, CompressionType_NONE) \o build_padding
    \o build_filename_section(m.file_name)

\* the two table groups of the image
build_tables(m) == build_file_tables(m.psf_tables) \o build_file_tables(m.bulk_tables)

\* what from_mk11 returns or raises; the cursor is left after the last block
from_mk11_built(m, built) ==
    [err |-> built.err,
     obj |-> IF built.log = <<>> THEN m
             ELSE [m EXCEPT !.pos = built.log[Len(built.log)].end_pos],
     buffer |-> built.buffer, log |-> built.log]

\* from_mk11 once the archive is parsed
from_mk11_parsed(p, r, skip_bulk) ==
    IF p.err # "" THEN [err |-> p.err, obj |-> p.obj, buffer |-> <<>>, log |-> <<>>]
    ELSE IF skip_bulk
         THEN from_mk11_built(p.obj, build_blocks(build_meta(p.obj),
                                                  AllEntries(p.obj.packages), r.blocks))
    ELSE IF ~({"psf_tables", "bulk_tables"} \subseteq p.obj.has)
         THEN [err |-> "AttributeError", obj |-> p.obj, buffer |-> <<>>, log |-> <<>>]
    ELSE from_mk11_built(p.obj, build_blocks(build_meta(p.obj) \o build_tables(p.obj),
                                             AllEntries(p.obj.packages), r.blocks))

\* from_mk11: parse first when the archive is not parsed, then build
from_mk11(o, r, skip_bulk) ==
    IF ~o.parsed THEN from_mk11_parsed(mk11_parse(o, r, skip_bulk), r, skip_bulk)
    ELSE from_mk11_parsed(Returned(o), r, skip_bulk)

----------------------------------------------------------------------------
(* MidwayAsset *)

NoMidway ==
    [exists |-> FALSE, mm |-> <<>>, has |-> {}, header |-> <<>>,
     compression_mode |-> 0, packages_count |-> 0, packages_extra_count |-> 0,
     file_name |-> <<>>, psf_tables |-> <<>>, bulk_tables |-> <<>>,
     psf_map |-> <<>>, bulk_map |-> <<>>, meta_size |-> 0,
     parsed |-> FALSE, pos |-> 0]

\* MidwayAsset(buffer, extra_source)
NewMidway(buffer, extra) ==
    [NoMidway EXCEPT !.exists = TRUE, !.mm = buffer,
                     !.has = IF extra # "" THEN {"psf_source"} ELSE {}]

\* validate_file: TRUE when the six checks on the summary pass
validate_file(m) ==
    IF header_magic(m.header) # FILE_MAGIC THEN FALSE
    ELSE IF header_midway_team_four_cc(m.header) # FOUR_CC_MK11 THEN FALSE
    ELSE IF header_main_package(m.header) # MAIN_PACKAGE THEN FALSE
    ELSE IF m.compression_mode # CompressionType_NONE THEN FALSE
    ELSE IF m.packages_count # 0 THEN FALSE
    ELSE IF m.packages_extra_count # 0 THEN FALSE
    ELSE TRUE

\* self.header = self.parse_header()
summary_header(m) ==
    [m EXCEPT !.header = Slice(m.mm, 0, HeaderSize), !.pos = HeaderSize,
              !.has = @ \cup {"header"}]

\* self.compression_mode, self.packages_count, self.packages_extra_count,
\* skip(0x18), self.summary_size
summary_counts(m, flag) ==
    [m EXCEPT !.compression_mode = flag,
              !.packages_count = FromLittle(Slice(m.mm, HeaderSize, 4)),
              !.packages_extra_count = FromLittle(Slice(m.mm, HeaderSize + 4, 4)),
              !.pos = HeaderSize + 8 + ReservedSize,
              !.has = @ \cup {"compression_mode", "packages_count",
                              "packages_extra_count", "summary_size"}]

\* validate_file() is called last in parse_summary; what it returns is dropped
summary_validated(m, valid) == Returned(m)

\* parse_summary after the header, whose compression flag is flag
summary_flag(m, flag) ==
    IF ~IsCompressionType(flag) THEN Raised("ValueError", m)
    ELSE IF Len(m.mm) < HeaderSize + 8 + ReservedSize THEN Raised("ValueError", m)
    ELSE summary_validated(summary_counts(m, flag), validate_file(summary_counts(m, flag)))

\* parse_summary
parse_summary(m) ==
    IF Len(m.mm) < HeaderSize THEN Raised("ValueError", m)
    ELSE summary_flag(summary_header(m), header_compression_flag(Slice(m.mm, 0, HeaderSize)))

\* validate_bulks / validate_psfs read tables[0].entries[0] of a non-empty
\* group before anything else: "" or the IndexError of that read.  The
\* findings they return are logged by parse and change no attribute.
first_entry_read(tables) ==
    IF tables # <<>> /\ tables[1].entries = <<>> THEN "IndexError" ELSE ""

\* The name, export and import table counts of a summary are all zero
TablesEmpty(header) ==
    /\ header_name_table_entries(header) = 0
    /\ header_export_table_entries(header) = 0
    /\ header_import_table_entries(header) = 0

\* self.file_name = self.parse_file_name()
midway_file_name(m, name) ==
    [m EXCEPT !.file_name = name.file_name, !.pos = name.pos,
              !.has = @ \cup {"file_name"}]

\* self.psf_tables = self.parse_file_table("psf")
midway_psf_tables(m, psf) ==
    [m EXCEPT !.psf_tables = psf.tables, !.pos = psf.pos, !.has = @ \cup {"psf_tables"}]

\* self.bulk_tables = self.parse_file_table("bulk")
midway_bulk_tables(m, bulk) ==
    [m EXCEPT !.bulk_tables = bulk.tables, !.pos = bulk.pos, !.has = @ \cup {"bulk_tables"}]

\* self.psf_map = ...
midway_psf_map(m, map) == [m EXCEPT !.psf_map = map.map, !.has = @ \cup {"psf_map"}]

\* self.bulk_map = ...
midway_bulk_map(m, map) == [m EXCEPT !.bulk_map = map.map, !.has = @ \cup {"bulk_map"}]

\* self.psf_reader = self.get_psf_reader(), when there are PSF tables
midway_psf_reader(m) ==
    IF m.psf_tables # <<>> THEN [m EXCEPT !.has = @ \cup {"psf_reader"}] ELSE m

\* self.meta_size = self.mm.tell()
midway_meta_size(m) == [m EXCEPT !.meta_size = m.pos, !.has = @ \cup {"meta_size"}]

\* the name, export and import tables of a summary that declares them empty:
\* three seeks, each a ValueError beyond the end of the map
midway_tables(m) ==
    IF header_name_table_offset(m.header) > Len(m.mm) THEN Raised("ValueError", m)
    ELSE IF header_export_table_offset(m.header) > Len(m.mm)
         THEN Raised("ValueError", [m EXCEPT !.has = @ \cup {"name_table"}])
    ELSE IF header_import_table_offset(m.header) > Len(m.mm)
         THEN Raised("ValueError", [m EXCEPT !.has = @ \cup {"name_table", "export_table"}])
    ELSE Returned([m EXCEPT !.pos = header_import_table_offset(m.header),
                            !.has = @ \cup {"name_table", "export_table", "import_table"}])

\* validate_exports (nothing to check for an empty export table), then
\* validate_bulks and validate_psfs unless skip_bulk; self.parsed = True
midway_validated(t, skip_bulk) ==
    IF t.err # "" THEN t
    ELSE IF ~skip_bulk /\ first_entry_read(t.obj.bulk_tables) # ""
         THEN Raised(first_entry_read(t.obj.bulk_tables), t.obj)
    ELSE IF ~skip_bulk /\ first_entry_read(t.obj.psf_tables) # ""
         THEN Raised(first_entry_read(t.obj.psf_tables), t.obj)
    ELSE Returned([t.obj EXCEPT !.parsed = TRUE])

\* the header metas have been read and meta_size is compared with nothing
midway_meta_unchecked(m, skip_bulk) == midway_validated(midway_tables(m), skip_bulk)

\* the header metas have been read: the meta_size check
midway_meta_checked(m, skip_bulk) ==
    IF m.meta_size # header_name_table_offset(m.header) THEN Raised("ValueError", m)
    ELSE midway_validated(midway_tables(m), skip_bulk)

\* both key maps are built
midway_parse_maps(m, skip_bulk) ==
    IF m.psf_tables # <<>> /\ "psf_source" \notin m.has THEN Raised("AttributeError", m)
    ELSE midway_meta_checked(midway_meta_size(midway_psf_reader(m)), skip_bulk)

\* the bulk key map has been generated
midway_parse_bulk_map(m, skip_bulk, map) ==
    IF map.err # "" THEN Raised(map.err, m)
    ELSE midway_parse_maps(midway_bulk_map(m, map), skip_bulk)

\* the PSF key map has been generated
midway_parse_psf_map(m, skip_bulk, map) ==
    IF map.err # "" THEN Raised(map.err, m)
    ELSE midway_parse_bulk_map(midway_psf_map(m, map), skip_bulk,
                               generate_map_from_table(m.bulk_tables))

\* the bulk table group has been read
midway_parse_bulk(m, skip_bulk, bulk) ==
    IF bulk.err # "" THEN Raised(bulk.err, m)
    ELSE midway_parse_psf_map(midway_bulk_tables(m, bulk), skip_bulk,
                              generate_map_from_table(m.psf_tables))

\* the PSF table group has been read
midway_parse_psf(m, skip_bulk, psf) ==
    IF psf.err # "" THEN Raised(psf.err, m)
    ELSE midway_parse_bulk(midway_psf_tables(m, psf), skip_bulk,
                           parse_file_table(m.mm, psf.pos, "bulk"))

\* the file name has been read
midway_parse_name(m, skip_bulk, name) ==
    IF name.err # "" THEN Raised(name.err, m)
    ELSE IF skip_bulk THEN midway_validated(midway_tables(midway_file_name(m, name)), skip_bulk)
    ELSE midway_parse_psf(midway_file_name(m, name), skip_bulk,
                          parse_file_table(m.mm, name.pos, "psf"))

\* parse_summary has run
midway_parse_summary(s, skip_bulk) ==
    IF s.err # "" THEN s
    ELSE midway_parse_name(s.obj, skip_bulk, parse_file_name(s.obj.mm, s.obj.pos))

\* MidwayAsset.parse(resolve=True, skip_bulk) on an object whose cursor is at
\* 0 and whose summary declares empty name, export and import tables
midway_parse(m, skip_bulk) == midway_parse_summary(parse_summary(m), skip_bulk)

\* to_midway once from_mk11 has run: the image wrapped with self.psf_source
to_midway_built(b) ==
    IF b.err # "" THEN [err |-> b.err, obj |-> b.obj, buffer |-> <<>>,
                        log |-> b.log, midway |-> NoMidway]
    ELSE IF "psf_source" \notin b.obj.has
         THEN [err |-> "AttributeError", obj |-> b.obj, buffer |-> <<>>,
               log |-> b.log, midway |-> NoMidway]
    ELSE [err |-> "", obj |-> b.obj, buffer |-> b.buffer, log |-> b.log,
          midway |-> NewMidway(b.buffer, "psf_source")]

\* to_midway
to_midway(o, r, skip_bulk) == to_midway_built(from_mk11(o, r, skip_bulk))

\* parse_all once the image's parse has run: midway_file is returned
parse_all_done(t, mp) == [t EXCEPT !.err = mp.err, !.midway = mp.obj]

\* parse_all once to_midway has run
parse_all_built(t, skip_bulk) ==
    IF t.err # "" THEN t ELSE parse_all_done(t, midway_parse(t.midway, skip_bulk))

\* parse_all once parse has run
parse_all_parsed(p, r, skip_bulk) ==
    IF p.err # "" THEN [err |-> p.err, obj |-> p.obj, buffer |-> <<>>,
                        log |-> <<>>, midway |-> NoMidway]
    ELSE parse_all_built(to_midway(p.obj, r, skip_bulk), skip_bulk)

\* parse_all(save_path="", skip_bulk): parse, to_midway, then the image's parse
parse_all(o, r, skip_bulk) == parse_all_parsed(mk11_parse(o, r, skip_bulk), r, skip_bulk)

----------------------------------------------------------------------------
(* Operations *)

Done(op, skip_bulk, err) == [op |-> op, skip_bulk |-> skip_bulk, err |-> err]

\* a summary the image parser's table reading is modelled for
InScope(mm) == Len(mm) < HeaderSize \/ TablesEmpty(Slice(mm, 0, HeaderSize))

\* the state a call of parse leaves
Parsed(skip_bulk, res) ==
    /\ mk11' = res.obj
    /\ outcome' = Done("parse", skip_bulk, res.err)
    /\ UNCHANGED <<raw, extra_source, image, blocks_log, midway>>
    /\ UNCHANGED <<splice, table_vars, decoder_vars>>

\* mk11_asset.parse(skip_bulk) on a freshly opened archive
Parse(skip_bulk) ==
    /\ mk11.pos = 0
    /\ Parsed(skip_bulk, mk11_parse(mk11, raw, skip_bulk))

\* the state a call of to_midway or parse_all leaves
Built(op, skip_bulk, res) ==
    /\ res.midway.exists => InScope(res.midway.mm)
    /\ mk11' = res.obj
    /\ image' = res.buffer
    /\ blocks_log' = res.log
    /\ midway' = IF res.midway.exists THEN res.midway ELSE midway
    /\ outcome' = Done(op, skip_bulk, res.err)
    /\ UNCHANGED <<raw, extra_source>>
    /\ UNCHANGED <<splice, table_vars, decoder_vars>>

\* mk11_asset.to_midway(skip_bulk)
ToMidway(skip_bulk) ==
    /\ mk11.parsed \/ mk11.pos = 0
    /\ Built("to_midway", skip_bulk, to_midway(mk11, raw, skip_bulk))

\* mk11_asset.parse_all(skip_bulk=skip_bulk) on a freshly opened archive
ParseAll(skip_bulk) ==
    /\ mk11.pos = 0
    /\ Built("parse_all", skip_bulk, parse_all(mk11, raw, skip_bulk))

\* the state a call of the image's parse leaves
MidwayParsed(skip_bulk, res) ==
    /\ midway' = res.obj
    /\ outcome' = Done("midway_parse", skip_bulk, res.err)
    /\ UNCHANGED <<raw, extra_source, mk11, image, blocks_log>>
    /\ UNCHANGED <<splice, table_vars, decoder_vars>>

\* midway_file.parse(resolve=True, skip_bulk) on an image not yet read
MidwayParse(skip_bulk) ==
    /\ midway.exists
    /\ midway.pos = 0
    /\ InScope(midway.mm)
    /\ MidwayParsed(skip_bulk, midway_parse(midway, skip_bulk))

Next ==
    \E skip_bulk \in BOOLEAN :
        \/ Parse(skip_bulk)
        \/ ToMidway(skip_bulk)
        \/ ParseAll(skip_bulk)
        \/ MidwayParse(skip_bulk)

\* an empty bytearray that no block has been spliced into
NoSplice ==
    [buffer |-> <<>>, called |-> FALSE, offset |-> 0, data |-> <<>>, before |-> <<>>,
     err |-> ""]

\* the bytearray after a _build_midway_block call: the call changes it in
\* place, and a call that raises has not assigned to it
Spliced(offset, data, res) ==
    /\ splice' = [buffer |-> res.buffer, called |-> TRUE, offset |-> offset, data |-> data,
                  before |-> splice.buffer, err |-> res.err]
    /\ outcome' = Done("splice", FALSE, res.err)
    /\ UNCHANGED <<raw, extra_source, mk11, image, blocks_log, midway, table_vars,
                   decoder_vars>>

\* _MidwayBuilder._build_midway_block(buffer, offset, data) on a bytearray
\* of up to MaxBuffer bytes: within it, at its end or one byte behind it
Splice ==
    \E offset \in 0..(Len(splice.buffer) + 1), data \in SeqsUpTo(0..MaxByte, MaxData) :
       /\ offset + Len(data) <= MaxBuffer
       /\ Spliced(offset, data, build_midway_block(splice.buffer, offset, data))

NextSplice == Splice

----------------------------------------------------------------------------
(* The import and export tables of an image: MK11TableEntry.resolve_object, *)
(* the resolve methods and the path properties.  A reference to a table     *)
(* entry is the entry's type and its position in its table (counted from 0, *)
(* as the code counts), so that tables whose references form a cycle are    *)
(* values like any other.                                                   *)

\* MK11NoneTableEntry(): its name is "None" and bool() of it is False
NoneEntry == [type |-> "MK11NoneTableEntry", at |-> 0]

\* an attribute that has not been assigned
Unset == [type |-> "unset", at |-> 0]

ImportRef(at) == [type |-> "MK11ImportTableEntry", at |-> at]
ExportRef(at) == [type |-> "MK11ExportTableEntry", at |-> at]

\* a lookup that raised IndexError
NoObject == [err |-> "IndexError", ref |-> Unset]

\* an index past the end of the table
index_past_end(table, value) == value >= Len(table)

\* resolve_object with the positive indexes counted from 0
resolve_object_from_zero(value, import_table, export_table) ==
    IF value = 0 THEN [err |-> "", ref |-> NoneEntry]
    ELSE IF value < 0
         THEN IF index_past_end(import_table, -(value + 1)) THEN NoObject
              ELSE [err |-> "", ref |-> ImportRef(-(value + 1))]
         ELSE IF index_past_end(export_table, value) THEN NoObject
              ELSE [err |-> "", ref |-> ExportRef(value)]

\* MK11TableEntry.resolve_object: the entry a signed table index selects
resolve_object(value, import_table, export_table) ==
    IF value = 0 THEN [err |-> "", ref |-> NoneEntry]
    ELSE IF value < 0
         THEN IF index_past_end(import_table, -(value + 1)) THEN NoObject
              ELSE [err |-> "", ref |-> ImportRef(-(value + 1))]
         ELSE IF index_past_end(export_table, value - 1) THEN NoObject
              ELSE [err |-> "", ref |-> ExportRef(value - 1)]

\* name_table[idx] of a Python list: a negative idx counts from the end
name_at(name_table, idx) ==
    IF idx >= Len(name_table) \/ idx < -Len(name_table)
    THEN [err |-> "IndexError", name |-> ""]
    ELSE [err |-> "", name |-> name_table[(IF idx < 0 THEN idx + Len(name_table) ELSE idx) + 1]]

\* MK11ExportTableEntry.resolve once every lookup has been made: the
\* attributes are assigned after the last lookup
export_resolved(e, class_, outer, name, super_, package) ==
    IF class_.err # "" \/ outer.err # "" \/ name.err # "" \/ super_.err # ""
       \/ package.err # ""
    THEN [err |-> "IndexError", entry |-> e]
    ELSE [err |-> "",
          entry |-> [e EXCEPT !.class_ = class_.ref, !.class_outer = outer.ref,
                              !.name = name.name, !.suffix = e.object_name_suffix,
                              !.class_super = super_.ref,
                              !.package = package.name, !.resolved = TRUE]]

\* MK11ExportTableEntry.resolve
resolve_export(e, name_table, import_table, export_table) ==
    export_resolved(e,
        resolve_object(e.object_class, import_table, export_table),
        resolve_object(e.object_outer_class, import_table, export_table),
        name_at(name_table, e.object_name),
        resolve_object(e.object_super, import_table, export_table),
        name_at(name_table, e.object_main_package))

\* MK11ImportTableEntry.resolve once every lookup has been made: each
\* attribute is assigned as soon as its lookup returns
import_resolved(e, package, name, outer, unknown) ==
    IF package.err # "" THEN [err |-> "IndexError", entry |-> e]
    ELSE IF name.err # ""
         THEN [err |-> "IndexError", entry |-> [e EXCEPT !.package = package.ref]]
    ELSE IF outer.err # ""
         THEN [err |-> "IndexError",
               entry |-> [e EXCEPT !.package = package.ref, !.name = name.name]]
    ELSE IF unknown.err # ""
         THEN [err |-> "IndexError",
               entry |-> [e EXCEPT !.package = package.ref, !.name = name.name,
                                   !.outer_class = outer.ref]]
    ELSE [err |-> "",
          entry |-> [e EXCEPT !.package = package.ref, !.name = name.name,
                              !.outer_class = outer.ref, !.unknown = unknown.ref,
                              !.resolved = TRUE]]

\* MK11ImportTableEntry.resolve
resolve_import(e, name_table, import_table, export_table) ==
    import_resolved(e,
        resolve_object(e.import_class_package, import_table, export_table),
        name_at(name_table, e.import_name),
        resolve_object(e.import_outer_class, import_table, export_table),
        resolve_object(e.object_name, import_table, export_table))

\* resolve_table_info over one table: the entries before the first that
\* raises are resolved, the one that raises keeps what it had assigned
resolve_entries(table, results) ==
    [err |-> IF \E i \in 1..Len(table) : results[i].err # "" THEN "IndexError" ELSE "",
     table |-> [i \in 1..Len(table) |->
                  IF \E j \in 1..(i - 1) : results[j].err # "" THEN table[i]
                  ELSE results[i].entry]]

\* resolve_table_info(self.import_table)
resolve_imports(t) ==
    resolve_entries(t.import_table,
        [i \in 1..Len(t.import_table) |->
            resolve_import(t.import_table[i], t.name_table, t.import_table, t.export_table)])

\* resolve_table_info(self.export_table)
resolve_exports(t) ==
    resolve_entries(t.export_table,
        [i \in 1..Len(t.export_table) |->
            resolve_export(t.export_table[i], t.name_table, t.import_table, t.export_table)])

\* the two resolve_table_info calls of MidwayAsset.parse: imports, then exports
resolve_tables_exports(t, imports, exports) ==
    IF imports.err # "" THEN [err |-> imports.err,
                              tables |-> [t EXCEPT !.import_table = imports.table]]
    ELSE [err |-> exports.err,
          tables |-> [t EXCEPT !.import_table = imports.table,
                               !.export_table = exports.table,
                               !.resolved = exports.err = ""]]

resolve_tables(t) == resolve_tables_exports(t, resolve_imports(t), resolve_exports(t))

\* the entry a reference points to
Deref(t, ref) ==
    IF ref.type = "MK11ImportTableEntry" THEN t.import_table[ref.at + 1]
    ELSE t.export_table[ref.at + 1]

\* bool(entry): only the None sentinel is falsy
Truthy(ref) == ref.type # "MK11NoneTableEntry"

\* entry.name
NameOf(t, ref) == IF Truthy(ref) THEN Deref(t, ref).name ELSE "None"

\* the entry the walk of a path property visits first: class_outer of an
\* export, package of an import
path_first(t, ref) ==
    IF ref.type = "MK11ExportTableEntry" THEN Deref(t, ref).class_outer
    ELSE Deref(t, ref).package

\* the entry the walk of owner's path visits after super_: an entry of the
\* owner's own type is followed along the owner's attribute, any other entry
\* along the other one
path_next(t, owner, super_) ==
    IF owner.type = "MK11ExportTableEntry"
    THEN IF super_.type = owner.type THEN Deref(t, super_).class_outer
         ELSE Deref(t, super_).package
    ELSE IF super_.type = owner.type THEN Deref(t, super_).package
         ELSE Deref(t, super_).class_outer

NoTables ==
    [name_table |-> <<>>, import_table |-> <<>>, export_table |-> <<>>,
     resolved |-> FALSE, exports_location |-> 0, bulk_data_offset |-> 0,
     size |-> 0, bulk_tables |-> <<>>]

NoWalk ==
    [active |-> FALSE, owner |-> Unset, super_ |-> NoneEntry, path |-> <<>>, steps |-> 0,
     returned |-> FALSE, joined |-> "", file_name |-> "", file_dir |-> "", full_name |-> ""]

RECURSIVE join_reversed(_)
\* "/".join(path[::-1])
join_reversed(path) ==
    IF Len(path) = 1 THEN path[1] ELSE join_reversed(Tail(path)) \o "/" \o Head(path)

\* what the path property returns for the names the walk collected
path_joined(path) == IF path = <<>> THEN "" ELSE join_reversed(path) \o "/"

\* a file name that always carries the name of class_
file_name_with_class(t, e) ==
    e.name \o (IF e.suffix # 0 THEN "." \o ToString(e.suffix) ELSE "")
           \o "." \o NameOf(t, e.class_)

\* MK11ExportTableEntry.file_name
file_name(t, e) ==
    e.name \o (IF e.suffix # 0 THEN "." \o ToString(e.suffix) ELSE "")
           \o (IF Truthy(e.class_) THEN "." \o NameOf(t, e.class_) ELSE "")

\* MK11ExportTableEntry.file_dir, given what self.path returned
file_dir(e, path) == "/" \o e.package \o "/" \o path

\* MK11ExportTableEntry.full_name, given what self.path returned
full_name(t, e, path) == file_dir(e, path) \o file_name(t, e)

\* full_name of an export whose path has been walked: file_dir, file_name
\* and their concatenation
names_read(t, w, joined) ==
    IF w.owner.type = "MK11ExportTableEntry"
    THEN [w EXCEPT !.active = FALSE, !.returned = TRUE, !.joined = joined,
                   !.file_name = file_name(t, Deref(t, w.owner)),
                   !.file_dir = file_dir(Deref(t, w.owner), joined),
                   !.full_name = full_name(t, Deref(t, w.owner), joined)]
    ELSE [w EXCEPT !.active = FALSE, !.returned = TRUE, !.joined = joined]

\* resolve_table_info on both tables, as MidwayAsset.parse(resolve=True) calls it
Resolve ==
    /\ ~asset.resolved
    /\ outcome.op = "open"
    /\ asset' = resolve_tables(asset).tables
    /\ outcome' = Done("resolve", FALSE, resolve_tables(asset).err)
    /\ UNCHANGED <<archive_vars, walk, errors, decoder_vars>>

\* the references to the entries of the tables
EntryRefs(t) ==
    {ImportRef(i - 1) : i \in 1..Len(t.import_table)}
    \cup {ExportRef(i - 1) : i \in 1..Len(t.export_table)}

\* entry.path is read: path = [], super_ = the first entry of the walk
PathStart ==
    /\ asset.resolved
    /\ ~walk.active
    /\ \E owner \in EntryRefs(asset) :
          walk' = [NoWalk EXCEPT !.active = TRUE, !.owner = owner,
                                 !.super_ = path_first(asset, owner)]
    /\ outcome' = Done("path", FALSE, "")
    /\ UNCHANGED <<archive_vars, asset, errors, decoder_vars>>

\* one iteration of `while super_:`.  The walk is followed for one iteration
\* more than there are entries in the two tables.
PathStep ==
    /\ walk.active
    /\ Truthy(walk.super_)
    /\ walk.steps <= Len(asset.import_table) + Len(asset.export_table)
    /\ walk' = [walk EXCEPT !.path = Append(@, NameOf(asset, walk.super_)),
                            !.super_ = path_next(asset, walk.owner, walk.super_),
                            !.steps = @ + 1]
    /\ UNCHANGED <<archive_vars, outcome, asset, errors, decoder_vars>>

\* `while super_:` finds super_ falsy: the property returns the joined path
\* to file_dir, which full_name completes with file_name
PathReturn ==
    /\ walk.active
    /\ ~Truthy(walk.super_)
    /\ walk' = names_read(asset, walk, path_joined(walk.path))
    /\ UNCHANGED <<archive_vars, outcome, asset, errors, decoder_vars>>

NextResolve == Resolve \/ PathStart \/ PathStep \/ PathReturn

\* MidwayAsset.validate_exports.  A finding is a record of what the message
\* names: the export, its range [lo, hi) or the gap [lo, hi), and for an
\* overlap the active range it overlaps with.
Finding(kind, name, lo, hi) ==
    [kind |-> kind, name |-> name, lo |-> lo, hi |-> hi, with |-> "", plo |-> 0, phi |-> 0]

\* (e.object_offset, e.object_size, e.full_name) for e in self.export_table;
\* `key` orders the full names: the exports the validator is modelled for lie
\* at the top of one package and their names ascend with their name index
export_rows(t) ==
    [i \in 1..Len(t.export_table) |->
        [off |-> t.export_table[i].object_offset, sz |-> t.export_table[i].object_size,
         name |-> t.export_table[i].name, key |-> t.export_table[i].object_name]]

\* the order of the tuples
row_before(a, b) ==
    \/ a.off < b.off
    \/ a.off = b.off /\ a.sz < b.sz
    \/ a.off = b.off /\ a.sz = b.sz /\ a.key < b.key

RECURSIVE insert_row(_, _)
insert_row(row, rows) ==
    IF rows = <<>> THEN <<row>>
    ELSE IF row_before(Head(rows), row) THEN <<Head(rows)>> \o insert_row(row, Tail(rows))
    ELSE <<row>> \o rows

RECURSIVE sorted(_)
\* sorted(...)
sorted(rows) == IF rows = <<>> THEN <<>> ELSE insert_row(Head(rows), sorted(Tail(rows)))

\* an overlap is reported and no gap
overlap_only(w, row) ==
    IF row.off < w.prev_end
    THEN [w EXCEPT !.errors = Append(@, [Finding("overlap", row.name, row.off,
                                                 row.off + row.sz)
                                           EXCEPT !.with = w.prev_name,
                                                  !.plo = w.prev_off, !.phi = w.prev_end])]
    ELSE w

\* 3. overlap / gap: the export against the active range
overlap_or_gap(w, row) ==
    IF row.off < w.prev_end
    THEN [w EXCEPT !.errors = Append(@, [Finding("overlap", row.name, row.off,
                                                 row.off + row.sz)
                                           EXCEPT !.with = w.prev_name,
                                                  !.plo = w.prev_off, !.phi = w.prev_end])]
    ELSE IF row.off > w.prev_end
    THEN [w EXCEPT !.errors = Append(@, Finding("gap", row.name, w.prev_end, row.off))]
    ELSE w

\* extend coverage window if needed
extend_window(w, row) ==
    IF row.off + row.sz > w.prev_end
    THEN [w EXCEPT !.prev_off = row.off, !.prev_end = row.off + row.sz,
                   !.prev_name = row.name]
    ELSE w

\* one iteration of the sweep
sweep_row(w, row, start, end) ==
    IF ~(start <= row.off /\ row.off < end)
    THEN [w EXCEPT !.errors = Append(@, Finding("out_of_bounds", row.name, row.off,
                                                row.off + row.sz))]
    ELSE IF row.off + row.sz > end
    THEN [w EXCEPT !.errors = Append(@, Finding("exceeds_end", row.name, row.off,
                                                row.off + row.sz))]
    ELSE extend_window(overlap_or_gap(w, row), row)

RECURSIVE sweep(_, _, _, _)
\* for off, sz, name in exports
sweep(w, rows, start, end) ==
    IF rows = <<>> THEN w
    ELSE sweep(sweep_row(w, Head(rows), start, end), Tail(rows), start, end)

\* 4. early-finish
early_finish(t, skip_bulk, w, start, end) ==
    IF w.prev_end >= end
    THEN [err |-> "", errors |-> w.errors, start |-> start, end |-> end,
          prev_end |-> w.prev_end]
    ELSE IF ~skip_bulk /\ t.bulk_tables # <<>>
    THEN IF t.bulk_tables[1].entries = <<>>
         THEN [err |-> "IndexError", errors |-> <<>>, start |-> start, end |-> end,
               prev_end |-> w.prev_end]
         ELSE IF t.bulk_tables[1].entries[1].decompressed_offset # w.prev_end
         THEN [err |-> "", start |-> start, end |-> end, prev_end |-> w.prev_end,
               errors |-> Append(w.errors,
                                 Finding("ends_early_bulk", "", w.prev_end,
                                         t.bulk_tables[1].entries[1].decompressed_offset))]
         ELSE [err |-> "", errors |-> w.errors, start |-> start, end |-> end,
               prev_end |-> w.prev_end]
    ELSE [err |-> "", start |-> start, end |-> end, prev_end |-> w.prev_end,
          errors |-> Append(w.errors, Finding("ends_early", "", w.prev_end, end))]

\* getattr(self.header, "bulk_location", self.mm.size()): the summary has no
\* field of that name
exports_end(t) == t.size

\* validate_exports from `start = self.header.exports_location` on
validate_range(t, skip_bulk, start, end) ==
    early_finish(t, skip_bulk,
                 sweep([prev_off |-> start, prev_end |-> start, prev_name |-> "",
                        errors |-> <<>>],
                       sorted(export_rows(t)), start, end),
                 start, end)

\* MidwayAsset.validate_exports
validate_exports(t, skip_bulk) ==
    IF t.export_table = <<>>
    THEN [err |-> "", errors |-> <<>>, start |-> 0, end |-> 0, prev_end |-> 0]
    ELSE validate_range(t, skip_bulk, t.exports_location, exports_end(t))

\* what a validate_exports call returned or raised, with the range it swept
Validated(skip_bulk, res) ==
    /\ errors' = [ran |-> TRUE, skip_bulk |-> skip_bulk, err |-> res.err,
                  errors |-> res.errors, start |-> res.start, end |-> res.end,
                  prev_end |-> res.prev_end]
    /\ outcome' = Done("validate_exports", skip_bulk, res.err)
    /\ UNCHANGED <<archive_vars, asset, walk, decoder_vars>>

\* errors = self.validate_exports(skip_bulk=skip_bulk) of MidwayAsset.parse,
\* on resolved exports that lie at the top of their package
ValidateExports(skip_bulk) ==
    /\ asset.resolved
    /\ ~errors.ran
    /\ \A i \in 1..Len(asset.export_table) :
          asset.export_table[i].class_outer = NoneEntry
    /\ Validated(skip_bulk, validate_exports(asset, skip_bulk))

NextExports == Resolve \/ \E skip_bulk \in BOOLEAN : ValidateExports(skip_bulk)


----------------------------------------------------------------------------
(* The property decoder: UProperty and its subclasses, DatabaseHandler.     *)
(* A decode is threaded through a record r: `pos` is the cursor of the      *)
(* export body, `err` the exception that ended the decode, `warned` the     *)
(* module-level warned_classes, `warnings` the warnings logged, `met` the   *)
(* array names outside the whitelist that were met, `tags` one record per   *)
(* parse_once call in the order the calls returned, and `name`, `value`     *)
(* what the last reader returned.  A value is a record of its kind and `v`. *)

NoValue == [kind |-> "none", v |-> 0]

Fail(r, e) == [r EXCEPT !.err = e]

\* from_buffer_copy(file_handle, tell()) of n bytes succeeds
CanRead(d, r, n) == r.pos + n <= Len(d)

\* the unsigned value of the n bytes at the cursor
UInt(d, r, n) == FromLittle(Slice(d, r.pos, n))

\* int.from_bytes(b, "little", signed=True)
FromLittleSigned(b) ==
    IF b # <<>> /\ b[Len(b)] >= 128
    THEN -(FromLittle([i \in 1..Len(b) |-> 255 - b[i]]) + 1)
    ELSE FromLittle(b)

\* file_handle.seek(n, 1)
Skip(r, n) == [r EXCEPT !.pos = @ + n]

Returns(r, kind, v) == [r EXCEPT !.value = [kind |-> kind, v |-> v]]

\* Struct.read_buffer(file_handle, n) or of a ctypes integer of n bytes
read_unsigned(d, r, n) ==
    IF ~CanRead(d, r, n) THEN Fail(r, "ValueError")
    ELSE Returns(Skip(r, n), "int", UInt(d, r, n))

\* IntProperty.read_data
IntProperty_read_data(d, r, read_size) ==
    IF ~CanRead(d, r, read_size) THEN Fail(r, "ValueError")
    ELSE Returns(Skip(r, read_size), "int", FromLittleSigned(Slice(d, r.pos, read_size)))

\* NameProperty.read_data
NameProperty_read_data(d, name_table, r) ==
    IF ~CanRead(d, r, 8) THEN Fail(r, "ValueError")
    ELSE IF UInt(d, r, 8) >= Len(name_table) THEN Fail(Skip(r, 8), "IndexError")
    ELSE Returns(Skip(r, 8), "name", name_table[UInt(d, r, 8) + 1])

\* bytes.decode("ascii")
IsAscii(b) == \A i \in 1..Len(b) : b[i] < 128

\* StrProperty.read_data once string_size is read
StrProperty_chars(d, r, string_size) ==
    IF ~CanRead(d, r, string_size) THEN Fail(r, "ValueError")
    ELSE IF ~IsAscii(CStr(Slice(d, r.pos, string_size)))
         THEN Fail(Skip(r, string_size), "UnicodeDecodeError")
    ELSE Returns(Skip(r, string_size), "str", CStr(Slice(d, r.pos, string_size)))

\* StrProperty.read_data
StrProperty_read_data(d, r) ==
    IF ~CanRead(d, r, 4) THEN Fail(r, "ValueError")
    ELSE StrProperty_chars(d, Skip(r, 4), UInt(d, r, 4))

\* enumMaps: the greatest member of the enum a key name is decoded with (the
\* members of each are 0 up to it), or -1 for a key name that has no enum
enumMaps(key_name) ==
    CASE key_name \in {"mUnlockType", "mType"} -> 15
      [] key_name \in {"mRarity", "Rarity"} -> 9
      [] key_name = "mCategory" -> 8
      [] key_name = "InventoryItemType" -> 2
      [] key_name = "UnlockableType" -> 37
      [] key_name = "Mode" -> 3
      [] key_name = "Type" -> 5
      [] key_name = "MoveInfoBlockType" -> 4
      [] key_name = "HideGroup" -> 17
      [] OTHER -> -1

\* EnumProperty.read_data
EnumProperty_read_data(d, r, read_size, key_name) ==
    IF ~CanRead(d, r, read_size) THEN Fail(r, "ValueError")
    ELSE IF enumMaps(key_name) >= 0 /\ UInt(d, r, read_size) > enumMaps(key_name)
         THEN Fail(Skip(r, read_size), "ValueError")
    ELSE Returns(Skip(r, read_size), "enum", UInt(d, r, read_size))

\* MultiDWordProperty.read_data once the key is read
MultiDWordProperty_value(d, r, val_size) ==
    IF r.err # "" THEN r
    ELSE IF ~CanRead(d, r, val_size) THEN Fail(r, "ValueError")
    ELSE Returns(Skip(r, val_size), "dict",
                 <<[key |-> r.value, value |-> [kind |-> "int", v |-> UInt(d, r, val_size)]]>>)

\* MultiDWordProperty.read_data
MultiDWordProperty_read_data(d, r, key_size, val_size) ==
    MultiDWordProperty_value(d, read_unsigned(d, r, key_size), val_size)

\* BoolProperty.read_data
BoolProperty_read_data(d, r) ==
    IF ~CanRead(d, r, 4) THEN Fail(r, "ValueError")
    ELSE Returns(Skip(r, 4), "bool", UInt(d, r, 4) = 1)

\* FloatProperty.read_data: the value is kept as the four bytes of the float
FloatProperty_read_data(d, r) ==
    IF ~CanRead(d, r, 4) THEN Fail(r, "ValueError")
    ELSE Returns(Skip(r, 4), "float", Slice(d, r.pos, 4))

GuidSize == 16

\* FGuid.read_data: the value is kept as the bytes of the GUID
FGuid_read_data(d, r) ==
    IF ~CanRead(d, r, GuidSize) THEN Fail(r, "ValueError")
    ELSE Returns(Skip(r, GuidSize), "guid", Slice(d, r.pos, GuidSize))

\* the keys of PropertyMap
PropertyMap ==
    {"StrProperty", "IntProperty", "FloatProperty", "BoolProperty", "StructProperty",
     "ArrayProperty", "EnumProperty", "DWordProperty", "QWordProperty", "MapProperty",
     "NameProperty"}

\* the array names ArrayProperty.read_data decodes as structs without warning
ArrayWhitelist ==
    {"mUnlockPages", "mUnlocks", "mItems", "mAudioMapping", "Characters", "Sockets",
     "DefaultItems", "DefaultCharacterLoadouts", "States", "Challenges", "Attributes",
     "Slots", "ItemSequences", "Items", "Parameters", "ItemPrerequisites",
     "VisualAssets", "PlayerStatChallenges"}

\* the warning of ArrayProperty.read_data and what it leaves in warned_classes
array_warned(r, key_name) ==
    IF key_name \notin ArrayWhitelist /\ key_name \notin r.warned
    THEN [r EXCEPT !.warnings = Append(@, key_name), !.warned = @ \cup {key_name},
                   !.met = @ \cup {key_name}]
    ELSE IF key_name \notin ArrayWhitelist THEN [r EXCEPT !.met = @ \cup {key_name}]
    ELSE r

\* a size of 4 for a zero size field under every type
fix_property_size_any(cls) == [err |-> "", size |-> 4]

\* UProperty._fix_property_size
fix_property_size(cls) ==
    IF cls = "BoolProperty" THEN [err |-> "", size |-> 4]
    ELSE [err |-> "ValueError", size |-> 0]

\* a parse_once call that has read nothing yet
NewTag(at, depth) ==
    [at |-> at, depth |-> depth, name |-> "", type |-> "", cls |-> "", size |-> -1,
     property_size |-> -1, start_tell |-> -1, end_tell |-> -1, err |-> "",
     value |-> NoValue]

\* parse_once returns or raises: None for a tag without a name
tag_done(r, tag) ==
    [r EXCEPT !.tags = Append(@, [tag EXCEPT !.end_tell = r.pos, !.err = r.err,
                                             !.value = IF r.err = "" /\ tag.cls # ""
                                                       THEN r.value ELSE NoValue]),
              !.name = IF tag.name = "None" THEN "" ELSE tag.name]

RECURSIVE parse_once(_, _, _, _)
RECURSIVE StructProperty_read_data(_, _, _, _, _)
RECURSIVE array_loop(_, _, _, _, _, _, _, _)
RECURSIVE map_loop(_, _, _, _, _, _, _)

\* StructProperty.read_data after a parse_once call
struct_next(d, name_table, r, object, depth) ==
    IF r.err # "" THEN r
    ELSE IF r.name = "" THEN Returns(r, "dict", object)
    ELSE StructProperty_read_data(d, name_table, r,
             DictSet(object, [kind |-> "name", v |-> r.name], r.value), depth)

\* StructProperty.read_data: tags are read into `object` up to a None tag
StructProperty_read_data(d, name_table, r, object, depth) ==
    struct_next(d, name_table, parse_once(d, name_table, r, depth + 1), object, depth)

\* subtype.read_data(file_handle, *args) of an array or a map: `size` is the
\* ctypes width handed to DWordProperty and MultiDWordProperty
element_read_data(d, name_table, r, cls, size, depth) ==
    CASE cls = "NameProperty" -> NameProperty_read_data(d, name_table, r)
      [] cls = "DWordProperty" -> read_unsigned(d, r, size)
      [] cls = "MultiDWordProperty" -> MultiDWordProperty_read_data(d, r, size, size)
      [] cls = "StrProperty" -> StrProperty_read_data(d, r)
      [] cls = "StructProperty" -> StructProperty_read_data(d, name_table, r, <<>>, depth)

\* one iteration of the loop of ArrayProperty.read_data, the element read
array_item(d, name_table, r, cls, size, count, data, depth) ==
    IF r.err # "" THEN r
    ELSE array_loop(d, name_table, r, cls, size, count - 1, Append(data, r.value), depth)

\* for i in range(elements_count) of ArrayProperty.read_data
array_loop(d, name_table, r, cls, size, count, data, depth) ==
    IF count = 0 THEN Returns(r, "list", data)
    ELSE array_item(d, name_table, element_read_data(d, name_table, r, cls, size, depth),
                    cls, size, count, data, depth)

\* ArrayProperty.read_data once elements_count is read
array_elements(d, name_table, r, key_name, elements_count, depth) ==
    IF key_name = "mUnlockPagesSentForOnline"
    THEN array_loop(d, name_table, r, "DWordProperty", 4, elements_count, <<>>, depth)
    ELSE IF key_name \in {"mUnlockedByDefault", "mUnlockedForDev"}
    THEN array_loop(d, name_table, r, "NameProperty", 0, elements_count, <<>>, depth)
    ELSE array_loop(d, name_table, array_warned(r, key_name), "StructProperty", 0,
                    elements_count, <<>>, depth)

\* ArrayProperty.read_data
ArrayProperty_read_data(d, name_table, r, key_name, depth) ==
    IF ~CanRead(d, r, 4) THEN Fail(r, "ValueError")
    ELSE array_elements(d, name_table, Skip(r, 4), key_name, UInt(d, r, 4), depth)

\* the key and value readers MapProperty.read_data picks for a key name
MapReaders(key_name) ==
    CASE key_name = "mUnlockNameMap" ->
            [key_type |-> "NameProperty", key_size |-> 0,
             val_type |-> "MultiDWordProperty", val_size |-> 4, multi |-> FALSE]
      [] key_name = "mUnlockTypeMap" ->
            [key_type |-> "DWordProperty", key_size |-> 1,
             val_type |-> "NameProperty", val_size |-> 0, multi |-> TRUE]
      [] key_name = "DefaultUnlocks" ->
            [key_type |-> "StructProperty", key_size |-> 0,
             val_type |-> "DWordProperty", val_size |-> 1, multi |-> FALSE]
      [] key_name = "NameToItemHandleLookup" ->
            [key_type |-> "StrProperty", key_size |-> 0,
             val_type |-> "StructProperty", val_size |-> 0, multi |-> FALSE]
      [] OTHER ->
            [key_type |-> "", key_size |-> 0, val_type |-> "", val_size |-> 0,
             multi |-> FALSE]

\* a multimap that keeps the last value of a key
dict_append_last(object, key, value) == DictSet(object, key, [kind |-> "list", v |-> <<value>>])

\* object.setdefault(key, []).append(value)
dict_append(object, key, value) ==
    IF DictHas(object, key)
    THEN DictSet(object, key, [kind |-> "list", v |-> Append(DictGet(object, key).v, value)])
    ELSE DictSet(object, key, [kind |-> "list", v |-> <<value>>])

\* the key of a map whose keys are structs: the only value of the struct
\* (as a dict key True is 1 and False is 0)
struct_key(key) ==
    IF key.v[1].value.kind = "bool"
    THEN [kind |-> "int", v |-> IF key.v[1].value.v THEN 1 ELSE 0]
    ELSE key.v[1].value

\* a dict or a list is looked up as a key
unhashable(r) == IF r.err # "" THEN r ELSE Fail(r, "TypeError")

\* one iteration of the loop of MapProperty.read_data, the value read
map_value(d, name_table, r, readers, count, object, key, depth) ==
    IF r.err # "" THEN r
    ELSE IF readers.multi
    THEN map_loop(d, name_table, r, readers, count - 1, dict_append(object, key, r.value),
                  depth)
    ELSE IF DictHas(object, key) THEN Fail(r, "KeyError")
    ELSE map_loop(d, name_table, r, readers, count - 1, DictSet(object, key, r.value),
                  depth)

\* one iteration of the loop of MapProperty.read_data, the key read: a
\* struct read as a key stands for its only value
map_key(d, name_table, r, readers, count, object, depth) ==
    IF r.err # "" THEN r
    ELSE IF readers.key_type = "StructProperty" /\ Len(r.value.v) # 1
    THEN Fail(r, "TypeError")
    ELSE IF readers.key_type = "StructProperty"
            /\ struct_key(r.value).kind \in {"dict", "list"}
    THEN unhashable(element_read_data(d, name_table, r, readers.val_type,
                                      readers.val_size, depth))
    ELSE map_value(d, name_table,
                   element_read_data(d, name_table, r, readers.val_type, readers.val_size,
                                     depth),
                   readers, count, object,
                   IF readers.key_type = "StructProperty" THEN struct_key(r.value)
                   ELSE r.value,
                   depth)

\* for i in range(elements) of MapProperty.read_data
map_loop(d, name_table, r, readers, count, object, depth) ==
    IF count = 0 THEN Returns(r, "dict", object)
    ELSE map_key(d, name_table,
                 element_read_data(d, name_table, r, readers.key_type, readers.key_size,
                                   depth),
                 readers, count, object, depth)

\* MapProperty.read_data
MapProperty_read_data(d, name_table, r, key_name, depth) ==
    IF ~CanRead(d, r, 4) THEN Fail(r, "ValueError")
    ELSE IF MapReaders(key_name).key_type = "" THEN Fail(Skip(r, 4), "NotImplementedError")
    ELSE map_loop(d, name_table, Skip(r, 4), MapReaders(key_name), UInt(d, r, 4), <<>>,
                  depth)

\* cls.read_data of UProperty.read
read_data(d, name_table, r, cls, read_size, key_name, depth) ==
    CASE cls = "StrProperty" -> StrProperty_read_data(d, r)
      [] cls = "NameProperty" -> NameProperty_read_data(d, name_table, r)
      [] cls = "IntProperty" -> IntProperty_read_data(d, r, read_size)
      [] cls = "EnumProperty" -> EnumProperty_read_data(d, r, read_size, key_name)
      [] cls \in {"DWordProperty", "QWordProperty"} -> read_unsigned(d, r, read_size)
      [] cls = "MapProperty" -> MapProperty_read_data(d, name_table, r, key_name, depth)
      [] cls = "FloatProperty" -> FloatProperty_read_data(d, r)
      [] cls = "BoolProperty" -> BoolProperty_read_data(d, r)
      [] cls = "StructProperty" -> StructProperty_read_data(d, name_table, r, <<>>, depth)
      [] cls = "FGuid" -> FGuid_read_data(d, r)
      [] cls = "ArrayProperty" -> ArrayProperty_read_data(d, name_table, r, key_name, depth)

\* a read that returns the value whatever number of bytes was read
read_unchecked(r, tag) == tag_done(r, tag)

\* UProperty.read after read_data: the bytes read against property_size
read_checked(r, tag) ==
    IF r.err # "" THEN tag_done(r, tag)
    ELSE IF r.pos - tag.start_tell # tag.property_size
    THEN tag_done(Fail(r, "ValueError"), tag)
    ELSE tag_done(r, tag)

\* UProperty.read from start_tell on
read_value(d, name_table, r, tag) ==
    read_checked(read_data(d, name_table, r, tag.cls, tag.property_size, tag.name,
                           tag.depth),
                 [tag EXCEPT !.start_tell = r.pos])

\* StructProperty.read_headers and the StructPropertyMap lookup of read
struct_headers(d, name_table, r, tag) ==
    IF r.err # "" THEN tag_done(r, tag)
    ELSE IF r.value.v = "FGuid" THEN read_value(d, name_table, r, [tag EXCEPT !.cls = "FGuid"])
    ELSE read_value(d, name_table, r, tag)

\* cls.read_headers of UProperty.read
read_headers(d, name_table, r, tag) ==
    IF tag.cls = "StructProperty"
    THEN struct_headers(d, name_table, NameProperty_read_data(d, name_table, r), tag)
    ELSE read_value(d, name_table, r, tag)

\* UProperty.read once property_size is read
read_sized(d, name_table, r, tag) ==
    IF tag.size # 0 THEN read_headers(d, name_table, r, [tag EXCEPT !.property_size = tag.size])
    ELSE IF fix_property_size(tag.cls).err # ""
    THEN tag_done(Fail(r, fix_property_size(tag.cls).err), tag)
    ELSE read_headers(d, name_table, r,
                      [tag EXCEPT !.property_size = fix_property_size(tag.cls).size])

\* UProperty.read (parse_once calls it with headers=True)
read(d, name_table, r, tag) ==
    IF ~CanRead(d, r, 8) THEN tag_done(Fail(r, "ValueError"), tag)
    ELSE read_sized(d, name_table, Skip(r, 8), [tag EXCEPT !.size = UInt(d, r, 8)])

\* parse_once once read_type has returned name and type
parse_typed(d, name_table, r, tag) ==
    IF tag.name = "" THEN tag_done(r, tag)
    ELSE IF tag.type \notin PropertyMap THEN tag_done(Fail(r, "NotImplementedError"), tag)
    ELSE read(d, name_table, r, [tag EXCEPT !.cls = tag.type])

\* read_type once the name is read: the type index and its name
read_type_type(d, name_table, r, tag) ==
    IF ~CanRead(d, r, 8) THEN tag_done(Fail(r, "ValueError"), tag)
    ELSE IF UInt(d, r, 8) >= Len(name_table)
    THEN tag_done(Fail(Skip(r, 8), "IndexError"), tag)
    ELSE parse_typed(d, name_table, Skip(r, 8),
                     [tag EXCEPT !.type = name_table[UInt(d, r, 8) + 1]])

\* UProperty.read_type: the name index and its name; "None" ends the tag
read_type(d, name_table, r, tag) ==
    IF ~CanRead(d, r, 8) THEN tag_done(Fail(r, "ValueError"), tag)
    ELSE IF UInt(d, r, 8) >= Len(name_table)
    THEN tag_done(Fail(Skip(r, 8), "IndexError"), tag)
    ELSE IF name_table[UInt(d, r, 8) + 1] = "None"
    THEN tag_done(Skip(r, 8), [tag EXCEPT !.name = "None"])
    ELSE read_type_type(d, name_table, Skip(r, 8),
                        [tag EXCEPT !.name = name_table[UInt(d, r, 8) + 1]])

\* UProperty.parse_once
parse_once(d, name_table, r, depth) == read_type(d, name_table, r, NewTag(r.pos, depth))

RECURSIVE handler_parse(_, _, _, _)

\* DatabaseHandler.parse after a parse_once call
handler_next(d, name_table, r, data) ==
    IF r.err # "" THEN r
    ELSE IF r.name = "" THEN handler_parse(d, name_table, r, data)
    ELSE handler_parse(d, name_table, r,
                       DictSet(data, [kind |-> "name", v |-> r.name], r.value))

\* DatabaseHandler.parse: `while self.mm.tell() != self.mm.size()`
handler_parse(d, name_table, r, data) ==
    IF r.pos = Len(d) THEN Returns(r, "dict", data)
    ELSE handler_next(d, name_table, parse_once(d, name_table, r, 0), data)

\* a decode that has read nothing, with warned_classes as the module holds it
NewDecode(warned) ==
    [pos |-> 0, err |-> "", warned |-> warned, warnings |-> <<>>, met |-> {},
     tags |-> <<>>, name |-> "", value |-> NoValue]

\* no handler has been made
NoHandler ==
    [runs |-> 0, open |-> FALSE, mm |-> <<>>, name_table |-> <<>>, pos |-> 0, err |-> "",
     data |-> NoValue, tags |-> <<>>, warnings |-> <<>>, met |-> {}]

\* the handler once its parse has returned or raised
handler_parsed(h, r) ==
    [h EXCEPT !.open = FALSE, !.pos = r.pos, !.err = r.err,
              !.data = IF r.err = "" THEN r.value ELSE NoValue,
              !.tags = r.tags, !.warnings = r.warnings, !.met = r.met]

\* what handler_obj.parse() leaves behind
HandlerParsed(r) ==
    /\ handler' = handler_parsed(handler, r)
    /\ warned_classes' = r.warned
    /\ outcome' = Done("decode", FALSE, r.err)
    /\ UNCHANGED <<archive_vars, table_vars>>

\* handler_obj.parse() of parse_and_save_export
HandlerParse ==
    /\ handler.open
    /\ HandlerParsed(handler_parse(handler.mm, handler.name_table,
                                   NewDecode(warned_classes), <<>>))

----------------------------------------------------------------------------
(* Archives on disk *)

U64(n) == ToLittle(n, 8)

NameA == <<65, 0>>   \* "A" and its terminator

\* an external table entry on disk, its fields as 8-byte strings
Entry(d_size, c_size, d_off, c_off) ==
    [decompressed_size |-> d_size, compressed_size |-> c_size,
     decompressed_offset |-> d_off, compressed_offset |-> c_off, location |-> ""]

\* an entry of a PSF table that lies at offset n of the PSF
PsfEntry(n) == Entry(U64(1), U64(1), U64(n), U64(n))

\* an entry of a bulk table that lies at offset n of the bulk data
BulkEntry(n) == Entry(U64(1), neg, U64(n), neg)

\* an external table on disk
Table(key, entries, flag) ==
    [reference_key |-> U64(key), package_name |-> NameA, entries |-> entries,
     compression_flag |-> flag]

\* an external table as it lies on disk
RawTable(t) ==
    t.reference_key \o ToLittle(Len(t.package_name), 4) \o t.package_name
    \o ToLittle(Len(t.entries), 4)
    \o Flatten([i \in 1..Len(t.entries) |-> serialize_entry(t.entries[i])])
    \o ToLittle(t.compression_flag, 4)

\* a table group as it lies on disk: a u32 count and the tables
RawGroup(tables) ==
    ToLittle(Len(tables), 4) \o Flatten([i \in 1..Len(tables) |-> RawTable(tables[i])])

\* the file name section as it lies on disk
RawName(name) == ToLittle(Len(name), 4) \o name

\* a sub-package of a package list
SubPackage(d_off, c_off) ==
    [decompressed_offset |-> d_off, decompressed_size |-> 1,
     compressed_offset |-> c_off, compressed_size |-> 1]

Package(entries) == [package_name |-> <<80>>, entries |-> entries]

\* a chunk header on disk and what the Oodle library does when called for it
Chunk(c_size, d_size, result, dst) ==
    [compressed_size |-> c_size, decompressed_size |-> d_size,
     result |-> result, dst |-> dst]

\* a block of one chunk that decompresses to data
PlainBlock(data) ==
    [compressed_size |-> 1, decompressed_size |-> Len(data),
     stream |-> <<Chunk(1, Len(data), Len(data), data)>>]

\* where the metadata of the image built from these table groups ends
MetaEnd(psf, bulk) ==
    HeaderSize + 8 + ReservedSize + 4 + Len(NameA)
    + Len(RawGroup(psf)) + Len(RawGroup(bulk))

\* where block i lies on disk: past every metadata section of the model
BlockAt(i) == (HeaderSize + i) * HeaderSize

\* a summary whose name table offset is the end of the metadata
Summary(magic, four_cc, main_package, flag, psf, bulk) ==
    MakeHeader(magic, four_cc, main_package, MetaEnd(psf, bulk), flag)

GoodSummary(psf, bulk) ==
    Summary(FILE_MAGIC, FOUR_CC_MK11, MAIN_PACKAGE, CompressionType_PS4, psf, bulk)

\* an archive with the given summary, package lists, table groups and blocks,
\* where blocks maps the disk offset of each block to the block
Archive(header, packages, packages_extra, psf, bulk, blocks) ==
    [header |-> header, packages |-> packages, packages_extra |-> packages_extra,
     psf |-> psf, bulk |-> bulk,
     tail |-> RawName(NameA) \o RawGroup(psf) \o RawGroup(bulk),
     blocks |-> blocks]

\* one primary package whose only sub-package decompresses to <<1>> right
\* after the metadata
OnePackage(psf, bulk) == <<Package(<<SubPackage(MetaEnd(psf, bulk), BlockAt(1))>>)>>

OneBlock == [off \in {BlockAt(1)} |-> PlainBlock(<<1>>)]

\* no validator has run
NoReport ==
    [ran |-> FALSE, skip_bulk |-> FALSE, err |-> "", errors |-> <<>>, start |-> 0,
     end |-> 0, prev_end |-> 0]

\* no table is loaded, no path is being computed, no validator has run
TablesIdle == asset = NoTables /\ walk = NoWalk /\ errors = NoReport

\* ue3_properties has just been imported and no handler has run
DecoderIdle == warned_classes = {} /\ handler = NoHandler

Opened(r, extra) ==
    /\ raw = r
    /\ extra_source = extra
    /\ mk11 = NewArchive(extra)
    /\ image = <<>>
    /\ blocks_log = <<>>
    /\ midway = NoMidway
    /\ outcome = Done("open", FALSE, "")
    /\ splice = NoSplice
    /\ TablesIdle
    /\ DecoderIdle

ExtraSources == {"", "psf"}

(* Summaries: every combination of a right or wrong magic, four-cc and main *)
(* package with each compression flag of Flags                              *)
Flags == {0, 1, 2, 3, 4, 8, 15, 16, 17, 64, 256, 272}

InitHeader ==
    \E magic \in {FILE_MAGIC, <<193, 131, 42, 0>>},
       four_cc \in {FOUR_CC_MK11, <<77, 75, 49, 48>>},
       main_package \in {MAIN_PACKAGE, <<77, 65, 0, 0>>},
       flag \in Flags, extra \in ExtraSources :
        Opened(Archive(Summary(magic, four_cc, main_package, flag, <<>>, <<>>),
                       OnePackage(<<>>, <<>>), <<>>, <<>>, <<>>, OneBlock),
               extra)

SpecHeader == InitHeader /\ [][Next]_vars

(* Blocks: two sub-packages; the first block has one of the Shapes, the     *)
(* second is plain and lands on, beside, before or beyond the first.        *)

\* byte strings of length 1..MaxData over 0..MaxByte
Data == UNION {[1..n -> 0..MaxByte] : n \in 1..MaxData}

Shapes == {"plain", "short", "undeclared", "overshoot", "two", "truncated"}

\* the first block, built around data in one of the Shapes
ShapedBlock(shape, data) ==
    CASE shape = "plain" -> PlainBlock(data)
      [] shape = "short" ->        \* the library returns one byte less than declared
            [compressed_size |-> 1, decompressed_size |-> Len(data),
             stream |-> <<Chunk(1, Len(data), Len(data) - 1, data)>>]
      [] shape = "undeclared" ->   \* the block declares one byte more than its chunks
            [compressed_size |-> 1, decompressed_size |-> Len(data) + 1,
             stream |-> <<Chunk(1, Len(data), Len(data), data)>>]
      [] shape = "overshoot" ->    \* the chunk is larger than the block's compressed_size
            [compressed_size |-> 1, decompressed_size |-> Len(data),
             stream |-> <<Chunk(2, Len(data), Len(data), data)>>]
      [] shape = "two" ->          \* two chunks, the data and one more byte
            [compressed_size |-> 2, decompressed_size |-> Len(data) + 1,
             stream |-> <<Chunk(1, Len(data), Len(data), data), Chunk(1, 1, 1, <<1>>)>>]
      [] shape = "truncated" ->    \* the file ends before the chunk headers do
            [compressed_size |-> 2, decompressed_size |-> Len(data),
             stream |-> <<Chunk(1, Len(data), Len(data), data)>>]

\* destinations of the second block, for a first block at the end of the metadata
Destinations(data) ==
    {MetaEnd(<<>>, <<>>), MetaEnd(<<>>, <<>>) + 1, MetaEnd(<<>>, <<>>) + Len(data),
     MetaEnd(<<>>, <<>>) + MaxData + 2, HeaderSize}

InitBuild ==
    \E shape \in Shapes, data1 \in Data, data2 \in Data, extra \in ExtraSources :
      \E to \in Destinations(data1) :
        Opened(Archive(GoodSummary(<<>>, <<>>),
                       <<Package(<<SubPackage(MetaEnd(<<>>, <<>>), BlockAt(1)),
                                   SubPackage(to, BlockAt(2))>>)>>,
                       <<>>, <<>>, <<>>,
                       [off \in {BlockAt(1), BlockAt(2)} |->
                          IF off = BlockAt(1) THEN ShapedBlock(shape, data1)
                          ELSE PlainBlock(data2)]),
               extra)

SpecBuild == InitBuild /\ [][Next]_vars

(* Chunks: one sub-package whose block has 1..MaxChunks chunks; chunk i    *)
(* declares one or two bytes of value i, and the library returns all of    *)
(* them, one less, or fails.                                               *)

\* chunk i of a block: d_size declared bytes of which the library returns
\* d_size - short
ChunkOf(i, d_size, short) == Chunk(1, d_size, d_size - short, [k \in 1..d_size |-> i])

\* the block made of the chunks
ChunkedBlock(chunks) ==
    [compressed_size |-> Len(chunks),
     decompressed_size |-> SumSeq([i \in 1..Len(chunks) |-> chunks[i].decompressed_size]),
     stream |-> chunks]

InitBlocks ==
    \E n \in 1..MaxChunks, extra \in ExtraSources :
      \E d_size \in [1..n -> 1..2], short \in [1..n -> 0..1] :
        Opened(Archive(GoodSummary(<<>>, <<>>),
                       <<Package(<<SubPackage(MetaEnd(<<>>, <<>>), BlockAt(1))>>)>>,
                       <<>>, <<>>, <<>>,
                       [off \in {BlockAt(1)} |->
                          ChunkedBlock([i \in 1..n |-> ChunkOf(i, d_size[i], short[i])])]),
               extra)

SpecBlocks == InitBlocks /\ [][Next]_vars

(* External tables: one entry of every shape in either group, and groups of *)
(* up to MaxTables tables with keys from 1..MaxKey.                          *)

Words == {U64(n) : n \in 1..MaxWord} \cup {neg}

Entries == {Entry(U64(1), c_size, d_off, c_off) : c_size \in Words, d_off \in Words, c_off \in Words}

\* the extra package list that pairs with the PSF entries at offsets 1..n
ExtraFor(n) ==
    IF n = 0 THEN <<>> ELSE <<Package([i \in 1..n |-> SubPackage(i, i)])>>

InitEntries ==
    \E e \in Entries, group \in {"psf", "bulk"}, paired \in 0..1, extra \in ExtraSources :
        Opened(Archive(GoodSummary(IF group = "psf" THEN <<Table(1, <<e>>, 0)>> ELSE <<>>,
                                   IF group = "bulk" THEN <<Table(1, <<e>>, 0)>> ELSE <<>>),
                       OnePackage(IF group = "psf" THEN <<Table(1, <<e>>, 0)>> ELSE <<>>,
                                  IF group = "bulk" THEN <<Table(1, <<e>>, 0)>> ELSE <<>>),
                       ExtraFor(paired),
                       IF group = "psf" THEN <<Table(1, <<e>>, 0)>> ELSE <<>>,
                       IF group = "bulk" THEN <<Table(1, <<e>>, 0)>> ELSE <<>>,
                       OneBlock),
               extra)

\* the PSF group with the given keys: table i holds the PSF entry at offset i
PsfGroup(keys) == [i \in 1..Len(keys) |-> Table(keys[i], <<PsfEntry(i)>>, 0)]

\* the bulk group with the given keys
BulkGroup(keys) == [i \in 1..Len(keys) |-> Table(keys[i], <<BulkEntry(i)>>, 0)]

InitKeys ==
    \E psf_keys \in SeqsUpTo(1..MaxKey, MaxTables),
       bulk_keys \in SeqsUpTo(1..MaxKey, MaxTables), extra \in ExtraSources :
        Opened(Archive(GoodSummary(PsfGroup(psf_keys), BulkGroup(bulk_keys)),
                       OnePackage(PsfGroup(psf_keys), BulkGroup(bulk_keys)),
                       ExtraFor(Len(psf_keys)),
                       PsfGroup(psf_keys), BulkGroup(bulk_keys), OneBlock),
               extra)

InitTables == InitEntries \/ InitKeys

SpecTables == InitTables /\ [][Next]_vars

(* Pairing: up to MaxRows PSF entries, in one table or one table each, and  *)
(* up to MaxRows sub-packages of the extra list, whose decompressed offsets *)
(* agree with the compressed ones or not.                                   *)

\* the PSF group holding entries at the given offsets
PairingGroup(offsets, together) ==
    IF offsets = <<>> THEN <<>>
    ELSE IF together
         THEN <<Table(1, [i \in 1..Len(offsets) |-> PsfEntry(offsets[i])], 0)>>
         ELSE [i \in 1..Len(offsets) |-> Table(i, <<PsfEntry(offsets[i])>>, 0)]

\* the extra package list holding sub-packages at the given offsets
PairingExtra(offsets, shift) ==
    IF offsets = <<>> THEN <<>>
    ELSE <<Package([i \in 1..Len(offsets) |-> SubPackage(offsets[i] + shift, offsets[i])])>>

InitPairing ==
    \E psf_offsets \in SeqsUpTo(1..MaxWord, MaxRows),
       pkg_offsets \in SeqsUpTo(1..MaxWord, MaxRows),
       together \in BOOLEAN, shift \in 0..1, extra \in ExtraSources :
        Opened(Archive(GoodSummary(PairingGroup(psf_offsets, together), <<>>),
                       OnePackage(PairingGroup(psf_offsets, together), <<>>),
                       PairingExtra(pkg_offsets, shift),
                       PairingGroup(psf_offsets, together), <<>>, OneBlock),
               extra)

SpecPairing == InitPairing /\ [][Next]_vars

----------------------------------------------------------------------------
(* Tables: MaxImports imports and MaxExports exports.  An entry is drawn    *)
(* with one reference r of -MaxRef..MaxRef: an export has r as its outer    *)
(* class and -r as its class, an import has r as its package and -r as its  *)
(* outer class, so that references point into either table, at the None     *)
(* sentinel, at the entry itself and past the end of the import table.      *)

\* no archive is open
Closed ==
    /\ raw = <<>>
    /\ extra_source = ""
    /\ mk11 = NewArchive("")
    /\ image = <<>>
    /\ blocks_log = <<>>
    /\ midway = NoMidway
    /\ outcome = Done("open", FALSE, "")

NoArchive == Closed /\ splice = NoSplice

Names == <<"None", "Core", "Engine", "Char", "Item", "Mesh", "Anim", "Skel">>

Refs == -MaxRef..MaxRef

\* an export as MidwayAsset.parse_export_table reads it
Export(r, name, offset, size) ==
    [type |-> "MK11ExportTableEntry", object_class |-> -r, object_outer_class |-> r,
     object_name |-> name, object_name_suffix |-> 0, object_super |-> 0,
     object_main_package |-> 0, object_offset |-> offset, object_size |-> size,
     resolved |-> FALSE, class_ |-> Unset, class_outer |-> Unset, name |-> "",
     suffix |-> 0, class_super |-> Unset, package |-> ""]

\* an import as MidwayAsset.parse_import_table reads it
Import(r, name) ==
    [type |-> "MK11ImportTableEntry", import_class_package |-> r, import_name |-> name,
     import_outer_class |-> -r, object_name |-> 0,
     resolved |-> FALSE, package |-> Unset, name |-> "", outer_class |-> Unset,
     unknown |-> Unset]

InitResolve ==
    /\ NoArchive
    /\ DecoderIdle
    /\ walk = NoWalk
    /\ errors = NoReport
    /\ \E ir \in [1..MaxImports -> Refs], er \in [1..MaxExports -> Refs] :
          asset = [NoTables EXCEPT
                      !.name_table = Names,
                      !.import_table = [i \in 1..MaxImports |-> Import(ir[i], i)],
                      !.export_table = [i \in 1..MaxExports |->
                                           Export(er[i], MaxImports + i, 0, 0)]]

SpecResolve == InitResolve /\ [][NextResolve]_vars

(* Names: MaxImports imports without package and MaxExports exports with a  *)
(* reference each from Refs and a name suffix of 0 or 1.                    *)

InitNames ==
    /\ NoArchive
    /\ DecoderIdle
    /\ walk = NoWalk
    /\ errors = NoReport
    /\ \E er \in [1..MaxExports -> Refs], suffix \in [1..MaxExports -> 0..1] :
          asset = [NoTables EXCEPT
                      !.name_table = Names,
                      !.import_table = [i \in 1..MaxImports |-> Import(0, i)],
                      !.export_table = [i \in 1..MaxExports |->
                                           [Export(er[i], MaxImports + i, 0, 0)
                                              EXCEPT !.object_name_suffix = suffix[i]]]]

SpecNames == InitNames /\ [][NextResolve]_vars

(* Name indexes: MaxImports imports and MaxExports exports without          *)
(* references, whose name indexes are the first and the last of the name    *)
(* table, one behind it, -1, or one ahead of -len(name_table).              *)

\* values of the c_int32 fields import_name and object_name
NameRefs == {-Len(Names) - 1, -1, 0, Len(Names) - 1, Len(Names)}

InitLookups ==
    /\ NoArchive
    /\ DecoderIdle
    /\ walk = NoWalk
    /\ errors = NoReport
    /\ \E import_name \in [1..MaxImports -> NameRefs],
          object_name \in [1..MaxExports -> NameRefs],
          object_main_package \in {0, Len(Names)} :
          asset = [NoTables EXCEPT
                      !.name_table = Names,
                      !.import_table = [i \in 1..MaxImports |-> Import(0, import_name[i])],
                      !.export_table = [i \in 1..MaxExports |->
                                           [Export(0, object_name[i], 0, 0)
                                              EXCEPT !.object_main_package =
                                                        object_main_package]]]

NextLookups == Resolve

SpecLookups == InitLookups /\ [][NextLookups]_vars

----------------------------------------------------------------------------
(* Export bodies: up to MaxTags property tags, then nothing, a None tag, two *)
(* None tags or a None tag and one more property.  The tags are booleans and *)
(* integers with a size field of 0 or 4, a tag of no known type, a struct    *)
(* with a right or a zero size field and arrays of 0 or 1 structs under a    *)
(* whitelisted and under another name.                                       *)

DecodeNames ==
    <<"None", "BoolProperty", "IntProperty", "StructProperty", "ArrayProperty",
      "ByteProperty", "bOn", "mCount", "Item", "mUnlockPages", "mExtra">>

\* the index of a name in the name table of the image
NameIdx(name) == (CHOOSE i \in 1..Len(DecodeNames) : DecodeNames[i] = name) - 1

U32(n) == ToLittle(n, 4)

\* a property tag on disk: name index, type index, property_size, payload
Tag(name, type, size, payload) ==
    U64(NameIdx(name)) \o U64(NameIdx(type)) \o U64(size) \o payload

Terminator == U64(NameIdx("None"))

\* a boolean whose size field is 0, the four bytes of its value, or eight
BoolTags == {Tag("bOn", "BoolProperty", size, U32(v)) : size \in {0, 4, 8}, v \in 0..MaxByte}

IntTags == {Tag("mCount", "IntProperty", size, U32(1)) : size \in {0, 4}}

\* the body of a struct: one boolean and the None tag that ends the struct
StructBody == Tag("bOn", "BoolProperty", 4, U32(1)) \o Terminator

\* a struct tag: its payload is the struct type and the struct's body
StructTags ==
    {Tag("Item", "StructProperty", size, U64(NameIdx("Item")) \o StructBody) :
        size \in {0, Len(StructBody), Len(StructBody) + 8}}

\* an array tag of `count` structs
ArrayTags ==
    {Tag(name, "ArrayProperty", 4 + count * Len(StructBody),
         U32(count) \o Flatten([i \in 1..count |-> StructBody])) :
        name \in {"mUnlockPages", "mExtra"}, count \in 0..1}

Tags ==
    BoolTags \cup IntTags \cup StructTags \cup ArrayTags
    \cup {Tag("bOn", "ByteProperty", 1, <<1>>)}

Endings ==
    {<<>>, Terminator, Terminator \o Terminator,
     Terminator \o Tag("mCount", "IntProperty", 4, U32(1))}

Bodies == {Flatten(tags) \o ending : tags \in SeqsUpTo(Tags, MaxTags), ending \in Endings}

\* handler_obj = handler(export_data, self.name_table) of parse_and_save_export
HandlerOpen ==
    /\ ~handler.open
    /\ handler.runs < MaxRuns
    /\ \E export_data \in Bodies :
          handler' = [NoHandler EXCEPT !.runs = handler.runs + 1, !.open = TRUE,
                                       !.mm = export_data, !.name_table = DecodeNames]
    /\ outcome' = Done("handler", FALSE, "")
    /\ UNCHANGED <<archive_vars, table_vars, warned_classes>>

NextDecode == HandlerOpen \/ HandlerParse

(* Maps: one MapProperty tag of each of the four maps MapProperty.read_data *)
(* knows, with up to MaxElements elements whose keys are drawn from         *)
(* 1..MaxKey and whose values are one of two.                               *)

MapNames ==
    <<"None", "MapProperty", "IntProperty", "BoolProperty", "mUnlockNameMap",
      "mUnlockTypeMap", "DefaultUnlocks", "NameToItemHandleLookup", "mCount", "bOn",
      "Alpha", "Bravo", "Charlie", "Delta">>

\* the index of a name in the name table of the maps
MapIdx(name) == (CHOOSE i \in 1..Len(MapNames) : MapNames[i] = name) - 1

\* a property tag on disk over the name table of the maps
MapTag(name, type, size, payload) ==
    U64(MapIdx(name)) \o U64(MapIdx(type)) \o U64(size) \o payload

\* element (k, v) of a map as the readers of the map take it: the key, then
\* the value
Element(map, k, v) ==
    CASE map = "mUnlockNameMap" -> U64(MapIdx("Alpha") + k - 1) \o U32(k) \o U32(v)
      [] map = "mUnlockTypeMap" -> <<k>> \o U64(MapIdx("Alpha") + v - 1)
      [] map = "DefaultUnlocks" ->
            MapTag("mCount", "IntProperty", 4, U32(k)) \o U64(MapIdx("None")) \o <<v>>
      [] map = "NameToItemHandleLookup" ->
            U32(1) \o <<64 + k>>
            \o MapTag("bOn", "BoolProperty", 4, U32(v - 1)) \o U64(MapIdx("None"))

\* the tag of a map with the given elements
MapTagOf(map, elements) ==
    MapTag(map, "MapProperty",
           4 + SumSeq([i \in 1..Len(elements) |-> Len(Element(map, elements[i][1],
                                                                elements[i][2]))]),
           U32(Len(elements))
           \o Flatten([i \in 1..Len(elements) |->
                         Element(map, elements[i][1], elements[i][2])]))

MapBodies ==
    {MapTagOf(map, elements) :
        map \in {"mUnlockNameMap", "mUnlockTypeMap", "DefaultUnlocks",
                 "NameToItemHandleLookup"},
        elements \in SeqsUpTo((1..MaxKey) \X (1..2), MaxElements)}

\* handler_obj = handler(export_data, self.name_table) on an export that
\* holds a map
MapOpen ==
    /\ ~handler.open
    /\ handler.runs < MaxRuns
    /\ \E export_data \in MapBodies :
          handler' = [NoHandler EXCEPT !.runs = handler.runs + 1, !.open = TRUE,
                                       !.mm = export_data, !.name_table = MapNames]
    /\ outcome' = Done("handler", FALSE, "")
    /\ UNCHANGED <<archive_vars, table_vars, warned_classes>>

NextMaps == MapOpen \/ HandlerParse

InitDecode == NoArchive /\ TablesIdle /\ warned_classes = {} /\ handler = NoHandler

SpecDecode == InitDecode /\ [][NextDecode]_vars

SpecMaps == InitDecode /\ [][NextMaps]_vars

----------------------------------------------------------------------------
(* Export data: an image of MaxExtent bytes whose export data starts at     *)
(* offset 1, up to MaxExports exports at offsets 0..MaxExtent with sizes 0..2,    *)
(* a bulk_data_offset that is 0 or one byte ahead of the end of the image,  *)
(* and no bulk table, one without entries or one whose entry lies there.    *)

\* the names of the exports, in ascending order
ExportNames == <<"None", "Alpha", "Bravo", "Charlie", "Delta">>

\* a bulk table group as validate_exports reads it
BulkTablesAt(offset) == <<[entries |-> <<[decompressed_offset |-> offset]>>]>>

InitExports ==
    /\ NoArchive
    /\ DecoderIdle
    /\ walk = NoWalk
    /\ errors = NoReport
    /\ \E n \in 0..MaxExports, bulk_data_offset \in {0, MaxExtent - 1},
          bulk_tables \in {<<>>, <<[entries |-> <<>>]>>, BulkTablesAt(MaxExtent - 1)} :
       \E off \in [1..n -> 0..MaxExtent], sz \in [1..n -> 0..2] :
          asset = [NoTables EXCEPT
                      !.name_table = ExportNames,
                      !.export_table = [i \in 1..n |-> Export(0, i, off[i], sz[i])],
                      !.exports_location = 1,
                      !.bulk_data_offset = bulk_data_offset,
                      !.size = MaxExtent,
                      !.bulk_tables = bulk_tables]

SpecExports == InitExports /\ [][NextExports]_vars

----------------------------------------------------------------------------
(* Metadata: either table group is empty, one table without entries or one  *)
(* table with one entry, and the name table offset of the summary is the    *)
(* end of the metadata or one byte beside it.                               *)

\* the groups of one kind: no table, a table of no entries, a table of one
MetaGroups(group) ==
    {<<>>, <<Table(1, <<>>, 0)>>,
     <<Table(1, <<IF group = "psf" THEN PsfEntry(1) ELSE BulkEntry(1)>>, 0)>>}

\* how many entries the tables of a group hold
EntryCount(tables) == SumSeq([i \in 1..Len(tables) |-> Len(tables[i].entries)])

InitMeta ==
    \E psf \in MetaGroups("psf"), bulk \in MetaGroups("bulk"), shift \in {-1, 0, 1},
       extra \in ExtraSources :
        Opened(Archive(MakeHeader(FILE_MAGIC, FOUR_CC_MK11, MAIN_PACKAGE,
                                  MetaEnd(psf, bulk) + shift, CompressionType_PS4),
                       OnePackage(psf, bulk), ExtraFor(EntryCount(psf)), psf, bulk,
                       OneBlock),
               extra)

SpecMeta == InitMeta /\ [][Next]_vars

----------------------------------------------------------------------------
(* Names on disk: a file name and table package names with and without the *)
(* null terminator among their bytes, up to one table in either group, and *)
(* the block right behind the metadata or four bytes further on.            *)

\* the file names on disk: "A" with its terminator, "A" and "AB" without
FileNames == {NameA, <<65>>, <<65, 66>>}

\* the package names on disk: "A" with its terminator and without
PackageNames == {NameA, <<65>>}

\* the groups of up to one table of one entry, by package name
NamedGroups(group) ==
    {<<>>}
    \cup {<<[Table(1, <<IF group = "psf" THEN PsfEntry(1) ELSE BulkEntry(1)>>, 0)
               EXCEPT !.package_name = name]>> : name \in PackageNames}

\* where the metadata of the archive ends on disk
NamedMetaEnd(fname, psf, bulk) ==
    HeaderSize + 8 + ReservedSize + 4 + Len(fname)
    + Len(RawGroup(psf)) + Len(RawGroup(bulk))

InitRebuild ==
    \E fname \in FileNames, psf \in NamedGroups("psf"), bulk \in NamedGroups("bulk"),
       gap \in {0, 4}, extra \in ExtraSources :
        Opened([Archive(MakeHeader(FILE_MAGIC, FOUR_CC_MK11, MAIN_PACKAGE,
                                   NamedMetaEnd(fname, psf, bulk),
                                   CompressionType_PS4),
                        <<Package(<<SubPackage(NamedMetaEnd(fname, psf, bulk) + gap,
                                               BlockAt(1))>>)>>,
                        ExtraFor(EntryCount(psf)), psf, bulk, OneBlock)
                  EXCEPT !.tail = RawName(fname) \o RawGroup(psf) \o RawGroup(bulk)],
               extra)

SpecRebuild == InitRebuild /\ [][Next]_vars

----------------------------------------------------------------------------
(* Splices: blocks of up to MaxData bytes of 0..MaxByte, spliced one after  *)
(* the other into a bytearray that starts empty.                            *)

InitSplice == Closed /\ splice = NoSplice /\ TablesIdle /\ DecoderIdle

SpecSplice == InitSplice /\ [][NextSplice]_vars

----------------------------------------------------------------------------
(* Properties *)

\* the three identity fields of a summary are the expected ones
SummaryIdentifies(h) ==
    /\ header_magic(h) = FILE_MAGIC
    /\ header_midway_team_four_cc(h) = FOUR_CC_MK11
    /\ header_main_package(h) = MAIN_PACKAGE

\* the six conditions on the summary of an image
ImageSummaryValid(mm) ==
    /\ Len(mm) >= HeaderSize + 8
    /\ SummaryIdentifies(Slice(mm, 0, HeaderSize))
    /\ header_compression_flag(Slice(mm, 0, HeaderSize)) = 0
    /\ FromLittle(Slice(mm, HeaderSize, 4)) = 0
    /\ FromLittle(Slice(mm, HeaderSize + 4, 4)) = 0

\* the sub-package entries of the primary packages, in build order
PrimaryEntries == AllEntries(raw.packages)

\* C1: once to_midway has built the image, every sub-package entry of the
\* primary packages finds its decompressed block in the image at its
\* decompressed_offset, whatever the later entries wrote.
C1_EntriesAtTheirOffsets ==
    image # <<>> =>
        /\ Len(blocks_log) = Len(PrimaryEntries)
        /\ \A i \in 1..Len(blocks_log) :
              Slice(image, PrimaryEntries[i].decompressed_offset,
                    Len(blocks_log[i].block.data)) = blocks_log[i].block.data

\* C2: a raw archive whose summary has a wrong magic, four-cc or main package
\* never becomes parsed, its package lists are never read, and parse raises.
C2_InvalidHeaderAborts ==
    ~SummaryIdentifies(raw.header) =>
        /\ ~mk11.parsed
        /\ "packages" \notin mk11.has
        /\ outcome.op = "parse" => outcome.err # ""

\* C3: an image whose summary fails one of the six conditions never becomes
\* parsed and none of its name, export and import tables is read.
C3_InvalidMidwayHeaderAborts ==
    (midway.exists /\ ~ImageSummaryValid(midway.mm)) =>
        /\ ~midway.parsed
        /\ midway.has \cap {"name_table", "export_table", "import_table"} = {}

\* the call that ran last succeeds on this archive opened with a PSF source
SucceedsWithSource ==
    IF outcome.op = "parse_all"
    THEN parse_all(NewArchive("psf"), raw, outcome.skip_bulk).err = ""
    ELSE /\ outcome.skip_bulk \/ "psf_tables" \in mk11.has
         /\ to_midway(NewArchive("psf"), raw, outcome.skip_bulk).err = ""

\* C4: on an archive opened without a PSF source, to_midway and parse_all
\* return a MidwayAsset whenever they do on the same archive with a source.
C4_PsfSourceOptional ==
    (outcome.op \in {"to_midway", "parse_all"} /\ extra_source = "" /\ SucceedsWithSource) =>
        (outcome.err = "" /\ midway.exists)

\* C5: a block that deserialize_block returns data for has data of exactly
\* block.decompressed_size bytes, and each of its chunks decompressed to
\* exactly the chunk's declared decompressed_size.
C5_CorruptBlockOnLengthMismatch ==
    \A i \in 1..Len(blocks_log) :
        blocks_log[i].block.err = "" =>
            /\ Len(blocks_log[i].block.data) = blocks_log[i].block.block_decompressed_size
            /\ \A j \in 1..Len(blocks_log[i].block.calls) :
                  blocks_log[i].block.calls[j].returned
                      = blocks_log[i].block.calls[j].output_size

\* C6: for a block that decompresses, the compressed sizes of the chunk
\* headers enumerated for it sum to the block header's compressed_size.
C6_ChunkSizesSumToBlock ==
    \A i \in 1..Len(blocks_log) :
        blocks_log[i].block.err = "" =>
            SumSeq([j \in 1..Len(blocks_log[i].block.chunk_headers) |->
                      blocks_log[i].block.chunk_headers[j].compressed_size])
                = blocks_log[i].block.block_compressed_size

\* C7: after parse, a summary flag of at least 0x10 has selected the Oodle
\* compressor, and any smaller flag has made parse fail.
C7_FlagSelectsCompressor ==
    outcome.op = "parse" =>
        IF header_compression_flag(raw.header) >= CompressionType_PS4
        THEN "compressor" \in mk11.has
        ELSE outcome.err # "" /\ ~mk11.parsed

PsfSignature(e) == e.compressed_offset = e.decompressed_offset

BulkSignature(e) == e.compressed_offset = neg /\ e.compressed_size = neg

\* the entries of every table parse_file_table has returned
AcceptedEntries ==
    AllEntries(mk11.psf_tables) \o AllEntries(mk11.bulk_tables)
    \o AllEntries(midway.psf_tables) \o AllEntries(midway.bulk_tables)

\* the entries of the tables on disk
DiskEntries == AllEntries(raw.psf) \o AllEntries(raw.bulk)

\* a parse that reads the table groups of an archive holding an entry with
\* neither signature raises
NeitherIsRejected ==
    (/\ outcome.op = "parse"
     /\ ~outcome.skip_bulk
     /\ \E i \in 1..Len(DiskEntries) :
           ~PsfSignature(DiskEntries[i]) /\ ~BulkSignature(DiskEntries[i]))
    => (outcome.err = "NotImplementedError" /\ ~mk11.parsed)

\* C8, as claimed: every accepted entry satisfies exactly one of the two
\* signatures and is tagged with it; an entry satisfying neither is rejected.
C8_ExactlyOneSignature ==
    /\ \A i \in 1..Len(AcceptedEntries) :
          /\ PsfSignature(AcceptedEntries[i]) # BulkSignature(AcceptedEntries[i])
          /\ AcceptedEntries[i].location
                 = IF PsfSignature(AcceptedEntries[i]) THEN "psf" ELSE "bulk"
    /\ NeitherIsRejected

\* C8, amended: every accepted entry satisfies at least one of the two
\* signatures; it is tagged psf exactly when compressed_offset equals
\* decompressed_offset, also when the bulk signature holds too, and bulk
\* otherwise; an entry satisfying neither is rejected.
C8_SignatureWithPsfFirst ==
    /\ \A i \in 1..Len(AcceptedEntries) :
          /\ PsfSignature(AcceptedEntries[i]) \/ BulkSignature(AcceptedEntries[i])
          /\ AcceptedEntries[i].location = "psf" <=> PsfSignature(AcceptedEntries[i])
          /\ AcceptedEntries[i].location = "bulk" <=>
                (~PsfSignature(AcceptedEntries[i]) /\ BulkSignature(AcceptedEntries[i]))
    /\ NeitherIsRejected

\* an entry with both signatures has been accepted and tagged psf
C8_BothSignaturesAccepted ==
    \E i \in 1..Len(AcceptedEntries) :
        /\ PsfSignature(AcceptedEntries[i])
        /\ BulkSignature(AcceptedEntries[i])
        /\ AcceptedEntries[i].location = "psf"

\* the two flattened sequences have the same length and the same
\* compressed_offset at every position
SameOffsets(psf, pkg) ==
    /\ Len(psf) = Len(pkg)
    /\ \A i \in 1..Len(psf) : psf[i].compressed_offset = U64(pkg[i].compressed_offset)

\* C9: a parse that reaches validate_psf_with_extra succeeds exactly when the
\* PSF entries and the extra sub-packages pair up in length and compressed
\* offset, whatever their decompressed offsets.
C9_PairingIff ==
    (outcome.op = "parse" /\ ~outcome.skip_bulk /\ "meta_size" \in mk11.has) =>
        (outcome.err = ""
            <=> SameOffsets(AllEntries(raw.psf), AllEntries(raw.packages_extra)))

\* no two tables of the group share a reference_key
DistinctKeys(tables) ==
    \A i, j \in 1..Len(tables) :
        tables[i].reference_key = tables[j].reference_key => i = j

\* every table is found under its own key and there are as many keys as tables
MapOf(map, tables) ==
    /\ Len(map) = Len(tables)
    /\ \A i, j \in 1..Len(map) : map[i].key = map[j].key => i = j
    /\ \A i \in 1..Len(tables) :
          /\ DictHas(map, tables[i].reference_key)
          /\ DictGet(map, tables[i].reference_key) = tables[i]

\* C10: generate_map_from_table either raises on a group in which two tables
\* share a reference_key, or returns a map with every table under its own
\* key and as many keys as tables.
C10_KeyMap ==
    /\ "psf_map" \in midway.has => MapOf(midway.psf_map, midway.psf_tables)
    /\ "bulk_map" \in midway.has => MapOf(midway.bulk_map, midway.bulk_tables)
    /\ (/\ outcome.op \in {"midway_parse", "parse_all"}
        /\ "bulk_tables" \in midway.has
        /\ ~DistinctKeys(midway.psf_tables))
       => ("psf_map" \notin midway.has /\ outcome.err = "ValueError")
    /\ (/\ outcome.op \in {"midway_parse", "parse_all"}
        /\ "psf_map" \in midway.has
        /\ ~DistinctKeys(midway.bulk_tables))
       => ("bulk_map" \notin midway.has /\ outcome.err = "ValueError")

\* both maps have been built and the PSF map holds more than one table
C10_MapBuilt ==
    /\ "bulk_map" \in midway.has
    /\ Len(midway.psf_map) > 1
    /\ MapOf(midway.psf_map, midway.psf_tables)

\* what the reference index law gives for the signed index v
IndexLaw(v, ref) ==
    /\ v = 0 => ref = NoneEntry /\ ~Truthy(ref) /\ NameOf(asset, ref) = "None"
    /\ v > 0 => ref.type = "MK11ExportTableEntry" /\ ref.at = v - 1
                /\ Deref(asset, ref) = asset.export_table[v]
    /\ v < 0 => ref.type = "MK11ImportTableEntry" /\ ref.at = -v - 1
                /\ Deref(asset, ref) = asset.import_table[-v]

\* a signed index whose magnitude is within the sizes of the two tables
WithinTables(v) ==
    /\ v > 0 => v <= Len(asset.export_table)
    /\ v < 0 => -v <= Len(asset.import_table)

\* C11: every reference of a resolved export or import is what the reference
\* index law gives for its signed index: 0 is the None sentinel, which is
\* falsy and named "None", v > 0 is the export at position v - 1 and v < 0 is
\* the import at position -v - 1; and resolving tables whose indexes are all
\* within the table sizes does not fail
C11_ReferenceIndexLaw ==
    /\ \A i \in 1..Len(asset.export_table) :
          asset.export_table[i].resolved =>
             /\ IndexLaw(asset.export_table[i].object_class, asset.export_table[i].class_)
             /\ IndexLaw(asset.export_table[i].object_outer_class,
                         asset.export_table[i].class_outer)
             /\ IndexLaw(asset.export_table[i].object_super,
                         asset.export_table[i].class_super)
    /\ \A i \in 1..Len(asset.import_table) :
          asset.import_table[i].resolved =>
             /\ IndexLaw(asset.import_table[i].import_class_package,
                         asset.import_table[i].package)
             /\ IndexLaw(asset.import_table[i].import_outer_class,
                         asset.import_table[i].outer_class)
             /\ IndexLaw(asset.import_table[i].object_name, asset.import_table[i].unknown)
    /\ (outcome.op = "resolve"
        /\ (\A i \in 1..Len(asset.export_table) :
               WithinTables(asset.export_table[i].object_class)
               /\ WithinTables(asset.export_table[i].object_outer_class))
        /\ (\A i \in 1..Len(asset.import_table) :
               WithinTables(asset.import_table[i].import_class_package)
               /\ WithinTables(asset.import_table[i].import_outer_class)))
       => outcome.err = "" /\ asset.resolved

\* resolved tables with a positive, a negative and a zero index
C11_ResolvedBothWays ==
    /\ asset.resolved
    /\ \E i \in 1..Len(asset.export_table) :
          asset.export_table[i].object_outer_class > 0
          /\ asset.export_table[i].object_class < 0
    /\ \E i \in 1..Len(asset.import_table) :
          asset.import_table[i].import_class_package = 0

\* C12: the walk of a path property ends within |imports| + |exports|
\* iterations, whatever the tables hold
C12_PathEndsWithinEntries ==
    walk.active =>
       /\ walk.steps <= Len(asset.import_table) + Len(asset.export_table)
       /\ walk.steps = Len(asset.import_table) + Len(asset.export_table)
             => ~Truthy(walk.super_)


\* the tags of the last decode whose property_size field was read as 0
ZeroSized == {i \in 1..Len(handler.tags) : handler.tags[i].size = 0}

\* C13: a tag whose property_size field is 0 is decoded as a boolean from the
\* 4 bytes after the size field when its type is BoolProperty (its value is
\* whether they hold 1, and the decode of the tag fails only when fewer than
\* 4 bytes are left); under every other type the decode fails there, the
\* cursor right after the size field and no header or value byte read
C13_ZeroSizeOnlyForBool ==
    \A i \in ZeroSized :
       IF handler.tags[i].type = "BoolProperty"
       THEN /\ handler.tags[i].property_size = 4
            /\ handler.tags[i].start_tell = handler.tags[i].at + 24
            /\ handler.tags[i].start_tell + 4 <= Len(handler.mm)
                  => /\ handler.tags[i].err = ""
                     /\ handler.tags[i].end_tell = handler.tags[i].start_tell + 4
                     /\ handler.tags[i].value.kind = "bool"
                     /\ handler.tags[i].value.v
                           = (Slice(handler.mm, handler.tags[i].start_tell, 4) = U32(1))
            /\ handler.tags[i].start_tell + 4 > Len(handler.mm)
                  => handler.tags[i].err # ""
       ELSE /\ handler.tags[i].err # ""
            /\ handler.tags[i].end_tell = handler.tags[i].at + 24
            /\ handler.tags[i].start_tell = -1
            /\ handler.err = handler.tags[i].err
            /\ handler.pos = handler.tags[i].end_tell

\* a decode that met a zero-sized boolean that holds 1 and returned it
C13_ZeroSizedBoolDecoded ==
    /\ handler.err = ""
    /\ \E i \in ZeroSized :
          /\ handler.tags[i].type = "BoolProperty"
          /\ handler.tags[i].value.kind = "bool"
          /\ handler.tags[i].value.v
    /\ DictHas(handler.data.v, [kind |-> "name", v |-> "bOn"])

\* the tags the handler's own loop read, as positions in handler.tags
TopLevel == {i \in 1..Len(handler.tags) : handler.tags[i].depth = 0}

\* C14: when the body holds a None tag among its top-level tags, the decode
\* ends right after the first of them: no top-level tag is read behind it, the
\* cursor stays at its end, and the cursor never passes the end of the body
C14_StopsAtFirstNone ==
    /\ handler.pos <= Len(handler.mm)
    /\ \A i \in TopLevel :
          handler.tags[i].name = "None" =>
             /\ handler.pos = handler.tags[i].end_tell
             /\ \A j \in TopLevel : handler.tags[j].at <= handler.tags[i].at

\* how often a name occurs in a sequence
Count(seq, x) == Cardinality({i \in 1..Len(seq) : seq[i] = x})

\* C20: every handler run that meets an array name outside the whitelist
\* logs the warning for that name exactly once, whatever earlier runs of the
\* process logged
C20_WarnedOncePerRun ==
    \A name \in handler.met : Count(handler.warnings, name) = 1


\* the last splice landed inside the bytearray on a byte that was not zero
OverlapsData ==
    /\ splice.called
    /\ splice.offset < Len(splice.before)
    /\ AnyByte(existing(splice.before, splice.offset, splice.data))

\* C15: a splice at an offset inside the buffer whose range holds a nonzero
\* byte of the buffer raises and leaves the buffer as it was, length and bytes
C15_OverlappingWriteRefused ==
    OverlapsData => splice.err = "ValueError" /\ splice.buffer = splice.before

\* a splice of data other than what the buffer holds was refused in the
\* middle of a buffer that holds data
C15_OverlapRefused ==
    /\ OverlapsData
    /\ splice.err # ""
    /\ splice.data # <<>>
    /\ splice.data # existing(splice.before, splice.offset, splice.data)
    /\ splice.offset > 0


\* the bytes of the image that hold what its parse read ahead of meta_size:
\* the summary, the counts, the reserved bytes, the file name, the two groups
MetaRead(m) ==
    HeaderSize + 8 + ReservedSize + Len(build_filename_section(m.file_name))
    + Len(build_file_tables(m.psf_tables)) + Len(build_file_tables(m.bulk_tables))

\* C16: after a parse of the image without skip_bulk that got as far as
\* meta_size, meta_size is the cursor behind the summary, the counts, the
\* 0x18 reserved bytes, the file name and the two table groups; the parse
\* raised if that differs from the name table offset of the summary, and if
\* it did not raise the two are equal and the image is parsed
C16_MetaSizeIsNameTableOffset ==
    (outcome.op \in {"midway_parse", "parse_all"} /\ ~outcome.skip_bulk
     /\ "meta_size" \in midway.has) =>
       /\ midway.meta_size = MetaRead(midway)
       /\ midway.meta_size # header_name_table_offset(midway.header)
             => outcome.err = "ValueError"
       /\ outcome.err = ""
             => /\ midway.meta_size = header_name_table_offset(midway.header)
                /\ midway.parsed

\* an image with tables in both groups whose parse raised on the meta size
C16_MetaSizeMismatchRaised ==
    /\ "meta_size" \in midway.has
    /\ midway.meta_size # header_name_table_offset(midway.header)
    /\ midway.psf_tables # <<>>
    /\ midway.bulk_tables # <<>>
    /\ outcome.op = "midway_parse"
    /\ outcome.err = "ValueError"

\* C19: the validators return without raising, so a parse of the image that
\* has read the name, export and import tables ends with parsed = True
C19_ValidatorsNeverRaise ==
    "import_table" \in midway.has => midway.parsed


\* the findings of the last validate_exports call of one kind about one export
FindingsOn(kind, name) ==
    {i \in 1..Len(errors.errors) :
        errors.errors[i].kind = kind /\ errors.errors[i].name = name}

\* C17: validate_exports sweeps from the exports_location of the summary to
\* its bulk_data_offset when that is set, and to the size of the image only
\* when it is not
C17_EndIsBulkDataOffset ==
    (errors.ran /\ asset.export_table # <<>>) =>
       /\ errors.start = asset.exports_location
       /\ errors.end = IF asset.bulk_data_offset # 0 THEN asset.bulk_data_offset
                       ELSE asset.size

\* the exports in the order validate_exports sweeps them
SortedExports == sorted(export_rows(asset))

InRange(row) ==
    /\ errors.start <= row.off
    /\ row.off < errors.end
    /\ row.off + row.sz <= errors.end

\* the ends of the exports in range ahead of position k of the sorted order,
\* and the start of the range
EndsAhead(k) ==
    {errors.start}
    \cup {SortedExports[j].off + SortedExports[j].sz :
             j \in {i \in 1..(k - 1) : InRange(SortedExports[i])}}

\* the end of the active range when the export at position k is swept
ActiveEnd(k) == CHOOSE e \in EndsAhead(k) : \A f \in EndsAhead(k) : f <= e

SpliceFrame ==
    (splice.called /\ splice.err = "") =>
       /\ Len(splice.buffer)
             = IF splice.offset + Len(splice.data) > Len(splice.before)
               THEN splice.offset + Len(splice.data) ELSE Len(splice.before)
       /\ \A i \in 1..Len(splice.buffer) :
             splice.buffer[i]
                = IF i > splice.offset /\ i <= splice.offset + Len(splice.data)
                  THEN splice.data[i - splice.offset]
                  ELSE IF i <= Len(splice.before) THEN splice.before[i] ELSE 0

\* C21: a splice that returns leaves data at [offset, offset + len(data)),
\* every other byte of the buffer as it was, zeros in [old length, offset),
\* and a buffer of max(old length, offset + len(data)) bytes; no splice,
\* returning or raising, ever shortens the buffer
C21_SpliceFrame ==
    /\ []SpliceFrame
    /\ [][Len(splice'.buffer) >= Len(splice.buffer)]_vars

\* a splice of data behind the end of a buffer that holds data
C21_SplicedBeyondEnd ==
    /\ splice.called
    /\ splice.err = ""
    /\ splice.before # <<>>
    /\ splice.offset > Len(splice.before)
    /\ splice.data # <<>>


\* the positions in the reads of a block at which it did `op`
ReadsOf(b, op) == {k \in 1..Len(b.reads) : b.reads[k].op = op}

\* the bytes the library hands back for the leading n chunks of the block on
\* disk, one chunk after the other
RECURSIVE Outputs(_, _)
Outputs(stream, n) ==
    IF n = 0 THEN <<>>
    ELSE Outputs(stream, n - 1)
         \o SubSeq(stream[n].dst, 1, Min(stream[n].result, Len(stream[n].dst)))

\* C22: deserialize_block reads every chunk header of a block ahead of any
\* chunk payload; it then calls the compressor for the chunks in header
\* order, each time right after reading the payload of that chunk, with the
\* chunk's compressed_size bytes and its decompressed_size as output length;
\* a block it returns had exactly one call per chunk header and is the
\* outputs concatenated in that order
C22_CallsInHeaderOrder ==
    \A i \in 1..Len(blocks_log) :
       /\ \A h \in ReadsOf(blocks_log[i].block, "chunk_header"),
             p \in ReadsOf(blocks_log[i].block, "chunk_data") : h < p
       /\ Len(blocks_log[i].block.calls) <= Len(blocks_log[i].block.chunk_headers)
       /\ Cardinality(ReadsOf(blocks_log[i].block, "decompress"))
             = Len(blocks_log[i].block.calls)
       /\ \A j \in 1..Len(blocks_log[i].block.calls) :
             /\ blocks_log[i].block.calls[j].src_len
                   = blocks_log[i].block.chunk_headers[j].compressed_size
             /\ blocks_log[i].block.calls[j].output_size
                   = blocks_log[i].block.chunk_headers[j].decompressed_size
             /\ \E k \in ReadsOf(blocks_log[i].block, "decompress") :
                   /\ blocks_log[i].block.reads[k].chunk = j
                   /\ blocks_log[i].block.reads[k - 1]
                         = [op |-> "chunk_data", chunk |-> j]
                   /\ \A l \in ReadsOf(blocks_log[i].block, "decompress") :
                         l < k <=> blocks_log[i].block.reads[l].chunk < j
       /\ blocks_log[i].block.err = "" =>
             /\ Len(blocks_log[i].block.calls) = Len(blocks_log[i].block.chunk_headers)
             /\ Len(blocks_log[i].block.chunk_headers) = Len(raw.blocks[BlockAt(i)].stream)
             /\ blocks_log[i].block.data
                   = Outputs(raw.blocks[BlockAt(i)].stream,
                             Len(blocks_log[i].block.chunk_headers))

\* a block of three chunks was returned after three calls of the compressor
C22_ThreeChunksDecompressed ==
    \E i \in 1..Len(blocks_log) :
       /\ blocks_log[i].block.err = ""
       /\ Len(blocks_log[i].block.chunk_headers) = 3
       /\ Len(blocks_log[i].block.calls) = 3
       /\ Len(blocks_log[i].block.data) > 3


\* exactly one of compressed_offset and compressed_size is the -1 pattern
MixedPair(e) == (e.compressed_offset = neg) # (e.compressed_size = neg)

\* C23: no entry of a table parse_file_table returned has exactly one of
\* compressed_offset and compressed_size equal to 0xFFFFFFFFFFFFFFFF, and a
\* parse that reads table groups holding such an entry raises, whatever the
\* decompressed_offset of the entry
C23_NegationPairNeverMixed ==
    /\ \A i \in 1..Len(AcceptedEntries) : ~MixedPair(AcceptedEntries[i])
    /\ (/\ outcome.op = "parse"
        /\ ~outcome.skip_bulk
        /\ \E i \in 1..Len(DiskEntries) : MixedPair(DiskEntries[i]))
       => (outcome.err = "NotImplementedError" /\ ~mk11.parsed)


\* the export whose full_name was read last
Owner == asset.export_table[walk.owner.at + 1]

\* the names of the entry that object_class of the export refers to
ClassName(e) ==
    IF e.object_class > 0 THEN asset.export_table[e.object_class].name
    ELSE asset.import_table[-e.object_class].name

\* C24: the file_name of a resolved export is its name, then "." and the
\* suffix when the suffix is not zero, then "." and the name of its class
\* when object_class is not 0; its full_name is "/", the package, "/", the
\* path and the file_name
C24_FileNameOfExport ==
    (walk.returned /\ walk.owner.type = "MK11ExportTableEntry") =>
       /\ walk.file_name
             = asset.name_table[Owner.object_name + 1]
               \o (IF Owner.object_name_suffix # 0
                   THEN "." \o ToString(Owner.object_name_suffix) ELSE "")
               \o (IF Owner.object_class # 0 THEN "." \o ClassName(Owner) ELSE "")
       /\ walk.full_name
             = "/" \o asset.name_table[Owner.object_main_package + 1] \o "/"
               \o walk.joined \o walk.file_name

\* the full_name of an export with suffix, class and outer entry was read
C24_FullNameRead ==
    /\ walk.returned
    /\ walk.owner.type = "MK11ExportTableEntry"
    /\ Owner.object_class # 0
    /\ Owner.object_name_suffix # 0
    /\ walk.joined # ""


\* where the swept exports end: the end of the active range behind the last
\* export, the start of the export data for an empty table
SweptEnd ==
    IF asset.export_table = <<>> THEN asset.exports_location
    ELSE ActiveEnd(Len(SortedExports) + 1)

\* the rest of the export data belongs to the first bulk entry
BulkOwned ==
    /\ asset.bulk_tables # <<>>
    /\ asset.bulk_tables[1].entries # <<>>
    /\ asset.bulk_tables[1].entries[1].decompressed_offset = SweptEnd

\* C25: for every export table, the empty one too, validate_exports reports
\* that the export data ends early when the swept exports end ahead of the
\* end of the range, unless there are bulk tables and the first bulk entry
\* starts where they end; then it reports nothing about the remainder
C25_EndsEarlyReported ==
    (errors.ran /\ SweptEnd < exports_end(asset)) =>
       /\ errors.err = ""
       /\ (\E i \in 1..Len(errors.errors) :
              errors.errors[i].kind \in {"ends_early", "ends_early_bulk"})
          <=> ~BulkOwned


\* the tags whose value reader ran to its end: read_data returned, or the
\* check of the bytes it read raised
ValueRead ==
    {i \in 1..Len(handler.tags) :
        /\ handler.tags[i].start_tell # -1
        /\ handler.tags[i].end_tell >= handler.tags[i].start_tell}

\* C26: a tag whose value was returned had exactly property_size bytes read
\* by its value reader, counted from the position behind its headers, where
\* property_size is the size field, or 4 for a BoolProperty whose size field
\* is 0; no value is returned for a tag whose reader read another number of
\* bytes: its decoding raises
C26_ReadMatchesPropertySize ==
    \A i \in ValueRead :
       /\ handler.tags[i].property_size
             = IF handler.tags[i].size = 0 THEN 4 ELSE handler.tags[i].size
       /\ handler.tags[i].err = "" =>
             handler.tags[i].end_tell - handler.tags[i].start_tell
                = handler.tags[i].property_size
       /\ handler.tags[i].end_tell - handler.tags[i].start_tell
             # handler.tags[i].property_size
          => /\ handler.tags[i].err # ""
             /\ handler.tags[i].value = NoValue
             /\ handler.err # ""

\* a value reader read all its bytes, but not as many as the tag declared,
\* and the decoding raised ValueError
C26_SizeMismatchRaised ==
    \E i \in ValueRead :
       /\ handler.tags[i].err = "ValueError"
       /\ handler.tags[i].end_tell - handler.tags[i].start_tell
             \notin {0, handler.tags[i].property_size}
       /\ handler.tags[i].end_tell <= Len(handler.mm)
       /\ handler.tags[i].cls \in {"IntProperty", "BoolProperty", "StructProperty"}


\* the map tags of the export whose element loop was entered
MapTags ==
    {i \in 1..Len(handler.tags) :
        handler.tags[i].cls = "MapProperty" /\ handler.tags[i].start_tell # -1}

\* the number of elements the tag declares
ElementsOf(tag) == FromLittle(Slice(handler.mm, tag.start_tell, 4))

\* where the key of an element lies in the element, its length, and the
\* length of the element, for the elements of the given map
KeyLayout(map) ==
    CASE map = "mUnlockNameMap" -> [at |-> 0, len |-> 8, size |-> 16]
      [] map = "mUnlockTypeMap" -> [at |-> 0, len |-> 1, size |-> 9]
      [] map = "DefaultUnlocks" -> [at |-> 24, len |-> 4, size |-> 37]
      [] map = "NameToItemHandleLookup" -> [at |-> 4, len |-> 1, size |-> 41]

\* the bytes of the key of element j of the map
KeyBytes(tag, j) ==
    Slice(handler.mm,
          tag.start_tell + 4 + (j - 1) * KeyLayout(tag.name).size + KeyLayout(tag.name).at,
          KeyLayout(tag.name).len)

\* the name the value of element j of a mUnlockTypeMap refers to
TypeMapValue(tag, j) ==
    handler.name_table[FromLittle(Slice(handler.mm, tag.start_tell + 4 + (j - 1) * 9 + 1, 8))
                       + 1]

\* the values of the leading n elements whose key is that of element j
RECURSIVE ValuesUnder(_, _, _)
ValuesUnder(tag, j, n) ==
    IF n = 0 THEN <<>>
    ELSE ValuesUnder(tag, j, n - 1)
         \o (IF KeyBytes(tag, n) = KeyBytes(tag, j)
             THEN <<[kind |-> "name", v |-> TypeMapValue(tag, n)]>> ELSE <<>>)

\* C27: a map other than mUnlockTypeMap in which a key repeats raises
\* KeyError and returns no map; a mUnlockTypeMap is returned with every
\* value in the list of its key, in stream order, so that the lists hold as
\* many values as the map has elements
C27_DuplicateKeys ==
    \A i \in MapTags :
       IF handler.tags[i].name = "mUnlockTypeMap"
       THEN /\ handler.tags[i].err = ""
            /\ SumSeq([k \in 1..Len(handler.tags[i].value.v) |->
                         Len(handler.tags[i].value.v[k].value.v)])
                  = ElementsOf(handler.tags[i])
            /\ \A j \in 1..ElementsOf(handler.tags[i]) :
                  DictGet(handler.tags[i].value.v,
                          [kind |-> "int", v |-> FromLittle(KeyBytes(handler.tags[i], j))]).v
                     = ValuesUnder(handler.tags[i], j, ElementsOf(handler.tags[i]))
       ELSE (\E j, k \in 1..ElementsOf(handler.tags[i]) :
                j # k /\ KeyBytes(handler.tags[i], j) = KeyBytes(handler.tags[i], k))
            => /\ handler.tags[i].err = "KeyError"
               /\ handler.tags[i].value = NoValue
               /\ handler.err = "KeyError"
               /\ handler.data = NoValue

\* a mUnlockTypeMap with one key for two different values was decoded
C27_MultimapKeptBoth ==
    \E i \in MapTags :
       /\ handler.tags[i].name = "mUnlockTypeMap"
       /\ handler.tags[i].err = ""
       /\ Len(handler.tags[i].value.v) = 1
       /\ Len(handler.tags[i].value.v[1].value.v) = 2
       /\ handler.tags[i].value.v[1].value.v[1] # handler.tags[i].value.v[1].value.v[2]


\* the tables of two groups agree in what a table holds on disk
SameGroup(a, b) ==
    /\ Len(a) = Len(b)
    /\ \A i \in 1..Len(a) :
          /\ a[i].reference_key = b[i].reference_key
          /\ a[i].package_name = b[i].package_name
          /\ a[i].entries_count = b[i].entries_count
          /\ a[i].compression_flag = b[i].compression_flag
          /\ Len(a[i].entries) = Len(b[i].entries)
          /\ \A j \in 1..Len(a[i].entries) :
                serialize_entry(a[i].entries[j]) = serialize_entry(b[i].entries[j])

\* C28: when parse_all has built the image of an archive, the parse of the
\* image reads the file name and the two table groups back, and they equal
\* those parsed from the archive, whether or not the names on disk end with
\* a null terminator
C28_RebuildRoundTrip ==
    (outcome.op = "parse_all" /\ ~outcome.skip_bulk /\ midway.exists) =>
       /\ {"file_name", "psf_tables", "bulk_tables"} \subseteq midway.has
       /\ midway.file_name = mk11.file_name
       /\ SameGroup(midway.psf_tables, mk11.psf_tables)
       /\ SameGroup(midway.bulk_tables, mk11.bulk_tables)


\* C29: to_midway on an archive opened with its PSF source parses the
\* archive when it is not parsed and otherwise builds from what the parse
\* left; it reads no table group that no completed parse has set, so that
\* to_midway(skip_bulk=False) behind a completed parse(skip_bulk=True) does
\* not fail on a missing attribute, and an image it returns belongs to a
\* parsed archive
C29_ToMidwayReusesParse ==
    (outcome.op = "to_midway" /\ extra_source # "") =>
       /\ outcome.err # "AttributeError"
       /\ outcome.err = "" => (mk11.parsed /\ midway.exists)
       /\ ~outcome.skip_bulk /\ outcome.err = ""
             => {"psf_tables", "bulk_tables"} \subseteq mk11.has


\* an index into the name table
InNameTable(idx) == idx >= 0 /\ idx < Len(asset.name_table)

\* C30: resolving tables in which a name index of an export (object_name,
\* object_main_package) or of an import (import_name) lies outside
\* [0, len(name_table)) raises, and an entry that got its name got the name
\* stored at its index
C30_NameIndexChecked ==
    /\ (/\ outcome.op = "resolve"
        /\ \/ \E i \in 1..Len(asset.export_table) :
                 \/ ~InNameTable(asset.export_table[i].object_name)
                 \/ ~InNameTable(asset.export_table[i].object_main_package)
           \/ \E i \in 1..Len(asset.import_table) :
                 ~InNameTable(asset.import_table[i].import_name))
       => (outcome.err = "IndexError" /\ ~asset.resolved)
    /\ \A i \in 1..Len(asset.export_table) :
          asset.export_table[i].resolved =>
             /\ InNameTable(asset.export_table[i].object_name)
             /\ asset.export_table[i].name
                   = asset.name_table[asset.export_table[i].object_name + 1]
    /\ \A i \in 1..Len(asset.import_table) :
          asset.import_table[i].resolved =>
             /\ InNameTable(asset.import_table[i].import_name)
             /\ asset.import_table[i].name
                   = asset.name_table[asset.import_table[i].import_name + 1]


====
